---------------------------- MODULE Spec2Model ----------------------------
(***************************************************************************)
(* ClientContext (TCP connection context on top of lwIP): the receive      *)
(* pbuf chain, the blocking connect / write loops built on esp_delay, and  *)
(* the lwIP callbacks that drive them.                                     *)
(*                                                                         *)
(* One application thread calls the public operations; lwIP callbacks run  *)
(* to completion between two public calls or while the thread is inside    *)
(* the delay() of esp_delay.  wait_until_acked has no yield: between two   *)
(* of its iterations only the clock and the stack's ACK processing move.   *)
(***************************************************************************)
EXTENDS Integers, Sequences, FiniteSets, TLC

(* ------------------------------ bounds -------------------------------- *)
\* total number of payload bytes the peer sends in one behaviour
MaxArrive == 3
\* largest pbuf handed to the receive callback
MaxSegLen == 2
\* largest size argument of read(dst, size) / peekBytes(dst, size)
MaxRead == 2
\* largest length argument of write(ds, dl)
MaxWrite == 2
\* number of delay() / busy-wait clock advances in one behaviour
MaxDelays == 2
\* the history counts tcp_output calls of wait_until_acked up to this many
MaxCount == 2

\* largest timeout_ms and intvl_ms handed to esp_delay when it is taken by itself
MaxTimeoutMs == 3

MaxIntvlMs == 2

\* largest write and largest send window when the send pass is taken by itself
MaxSend == 5
\* size of the stack's send buffer (lwIP TCP_SND_BUF, scaled down)
TCP_SND_BUF == 2

(* -------------------------- program constants ------------------------- *)
\* uint32_t _timeout_ms = 5000
DefaultTimeout == 5000
\* default argument of wait_until_acked
WIFICLIENT_MAX_FLUSH_WAIT_MS == 300
\* if (scale < 4)
MaxScale == 4

\* how long one delay() or one stretch of busy waiting may last (ms)
Delays == {1, DefaultTimeout}

VARIABLES
    \* ---- ClientContext fields
    _pcb,              \* TRUE iff the tcp_pcb pointer is non-null
    _rx_buf,           \* pbuf chain: sequence of segments, each a sequence of bytes
    _rx_buf_offset,
    _datasource,       \* TRUE iff the source pointer is non-null
    _datalen,
    _written,
    _timeout_ms,
    _op_start_time,
    _send_waiting,
    _connect_pending,
    _sync,
    \* ---- the stack's side of the connection
    pcb_state,         \* state of the lwIP pcb, "FREED" once lwIP released it
    pcb_cb,            \* callback bindings of the pcb (tcp_arg/recv/sent/err/poll)
    snd_buf,           \* tcp_sndbuf(): free room in the send buffer
    now,               \* millis()
    \* ---- position of the application thread and locals of the running call
    pc,
    start_ms,          \* esp_delay: start_ms
    scale,             \* _write_some: scale
    has_written,       \* _write_some: has_written
    prevsndbuf,        \* wait_until_acked: prevsndbuf
    last_sent,         \* wait_until_acked: last_sent
    \* ---- what the last step was and what it returned
    op,
    ret,
    dst,
    \* ---- history (not read by any operation)
    nArrived,          \* bytes handed to _recv so far; the k-th byte has value k
    delivered,         \* bytes returned by read() / read(dst, size), in order
    skipped,           \* bytes dropped by discard_received
    credit,            \* total of tcp_recved
    fin,               \* what was buffered and delivered when the peer closed
    nDelays,
    calls,             \* number of tcp_abort / tcp_close calls made on the pcb
    w,                 \* history of the running / last write or connect call
    \* ---- lifetime of the context
    _refcnt,           \* int8_t
    _discard_cb,       \* TRUE iff a discard callback was given to the constructor
    live,              \* FALSE once unref() has run delete this
    teardown,          \* history: the steps of the releasing unref(), in order
    \* ---- keep-alive fields of the pcb
    so_keepalive,      \* so_options & SOF_KEEPALIVE
    keep_idle,
    keep_intvl,
    keep_cnt,
    nodelay,           \* flags & TF_NODELAY
    args,              \* history: the arguments of the last configuration call
    \* ---- a call of esp_delay taken by itself, and the stack's critical section
    ed,                \* frame of esp_delay: arguments, start_ms, clock, predicate
    cs,                \* LWIPMutex and the operation that is accessing the pcb
    \* ---- WiFiClientSecureCtx: the objects of the ESP32-compatible calls
    _esp32_ta,         \* X509List* : <<>> for nullptr, else <<type, PEM buffer>>
    _esp32_chain,      \* X509List*
    _esp32_sk          \* PrivateKey*

rxVars   == <<_rx_buf, _rx_buf_offset>>
wrVars   == <<_datasource, _datalen, _written>>
flagVars == <<_send_waiting, _connect_pending>>
cfgVars  == <<_timeout_ms, _sync>>
stkVars  == <<pcb_state, pcb_cb, snd_buf, calls>>
locVars  == <<start_ms, scale, has_written, prevsndbuf, last_sent>>
histVars == <<nArrived, delivered, skipped, credit, fin>>
refVars  == <<_refcnt, _discard_cb, live, teardown>>
kaVars   == <<so_keepalive, keep_idle, keep_intvl, keep_cnt, nodelay>>
tlsVars  == <<_esp32_ta, _esp32_chain, _esp32_sk>>
vars == <<_pcb, rxVars, wrVars, flagVars, cfgVars, _op_start_time, stkVars, now,
          pc, locVars, op, ret, dst, histVars, nDelays, w, refVars, kaVars, args,
          ed, cs, tlsVars>>

Min(a, b) == IF a < b THEN a ELSE b

(* ---------------------------- pbuf chain ------------------------------ *)
\* pbuf::tot_len of the head of a chain
RECURSIVE tot_len(_)
tot_len(chain) ==
    IF chain = <<>> THEN 0 ELSE Len(Head(chain)) + tot_len(Tail(chain))

\* the unread bytes of a chain whose head is consumed up to off
RECURSIVE Flatten(_)
Flatten(chain) ==
    IF chain = <<>> THEN <<>> ELSE Head(chain) \o Flatten(Tail(chain))

Unread(chain, off) == SubSeq(Flatten(chain), off + 1, Len(Flatten(chain)))

\* pbuf_cat(_rx_buf, pb)
pbuf_cat(chain, pb) == Append(chain, pb)

getSizeOf(chain, off) == IF chain = <<>> THEN 0 ELSE tot_len(chain) - off

getSize == getSizeOf(_rx_buf, _rx_buf_offset)

\* _consume without the pbuf_ref of the next segment: freeing the head frees the chain
ConsumeChain_freesChain(chain, off, size) ==
    LET left == Len(Head(chain)) - off - size IN
    IF left > 0 THEN [buf |-> chain, off |-> off + size]
    ELSE [buf |-> <<>>, off |-> 0]

\* _consume(size) on the chain: the new chain and offset
ConsumeChain(chain, off, size) ==
    LET left == Len(Head(chain)) - off - size IN
    IF left > 0 THEN [buf |-> chain, off |-> off + size]
    ELSE IF Len(chain) = 1 THEN [buf |-> <<>>, off |-> 0]
    ELSE [buf |-> Tail(chain), off |-> 0]

\* _consume(size): the receive credit it sends
ConsumeCredit(size) == IF _pcb THEN size ELSE 0

\* the copy loop of read(dst, size): chain, offset, bytes copied, credit sent
RECURSIVE ReadLoop(_, _, _, _, _)
ReadLoop(chain, off, size, out, cr) ==
    IF size = 0 THEN [buf |-> chain, off |-> off, out |-> out, cr |-> cr]
    ELSE LET buf_size  == Len(Head(chain)) - off
             copy_size == Min(size, buf_size)
             c         == ConsumeChain(chain, off, copy_size)
         IN ReadLoop(c.buf, c.off, size - copy_size,
                     out \o SubSeq(Head(chain), off + 1, off + copy_size),
                     cr + ConsumeCredit(copy_size))

\* state() that reports the pcb's own state for CLOSE_WAIT and CLOSING
state_noCloseWait ==
    IF ~_pcb THEN "CLOSED" ELSE pcb_state

\* state(): CLOSED for a null handle, CLOSE_WAIT and CLOSING
state ==
    IF ~_pcb \/ pcb_state = "CLOSE_WAIT" \/ pcb_state = "CLOSING"
    THEN "CLOSED" ELSE pcb_state

NoCallbacks == [arg |-> FALSE, sent |-> FALSE, recv |-> FALSE, err |-> FALSE, poll |-> FALSE]
AllCallbacks == [arg |-> TRUE, sent |-> TRUE, recv |-> TRUE, err |-> TRUE, poll |-> TRUE]

NoWrite == [len |-> 0, pre |-> FALSE, mem |-> FALSE, flush_ws |-> 0, flush_wua |-> 0,
            closed |-> FALSE, at_close |-> 0, late_chunk |-> FALSE,
            sync |-> FALSE, acked |-> FALSE, ctail |-> "none", cpend |-> FALSE,
            chunk |-> 0, flags |-> [more |-> FALSE, copy |-> FALSE]]

\* no esp_delay call is being followed
NoDelay == [timeout_ms |-> 0, intvl_ms |-> 0, start_ms |-> 0, millis |-> 0,
            blocked |-> FALSE, yields |-> 0, seen |-> "none"]

\* no operation is accessing the pcb, LWIPMutex is free
\* a null object pointer of WiFiClientSecureCtx
nullptr == <<>>

NoAccess == [name |-> "none", at |-> 0, held |-> FALSE, timer_ran |-> FALSE]

(* ------------------------------- Init --------------------------------- *)
\* constructor: a pcb from tcp_new() (CLOSED) or an accepted one (ESTABLISHED)
\* the state after construction, the stack offering a send window of win bytes
InitWindow(win) ==
    /\ _pcb = TRUE
    /\ _rx_buf = <<>>
    /\ _rx_buf_offset = 0
    /\ _datasource = FALSE
    /\ _datalen = 0
    /\ _written = 0
    /\ _timeout_ms = DefaultTimeout
    /\ _op_start_time = 0
    /\ _send_waiting = FALSE
    /\ _connect_pending = FALSE
    /\ _sync \in BOOLEAN
    /\ pcb_state \in {"CLOSED", "ESTABLISHED"}
    /\ pcb_cb = AllCallbacks
    /\ snd_buf = win
    /\ now = 0
    /\ pc = "idle"
    /\ start_ms = 0
    /\ scale = 0
    /\ has_written = FALSE
    /\ prevsndbuf = -1
    /\ last_sent = 0
    /\ op = "new"
    /\ ret = 0
    /\ dst = <<>>
    /\ nArrived = 0
    /\ delivered = <<>>
    /\ skipped = 0
    /\ credit = 0
    /\ fin = [seen |-> FALSE, M |-> 0, base |-> 0, skip0 |-> 0]
    /\ nDelays = 0
    /\ calls = [tcp_abort |-> 0, tcp_close |-> 0]
    /\ w = NoWrite
    /\ _refcnt = 0
    /\ _discard_cb \in BOOLEAN
    /\ live = TRUE
    /\ teardown = <<>>
    /\ so_keepalive = FALSE
    /\ keep_idle = 7200000
    /\ keep_intvl = 75000
    /\ keep_cnt = 9
    /\ nodelay = FALSE
    /\ args = <<>>
    /\ ed = NoDelay
    /\ cs = NoAccess
    /\ _esp32_ta = nullptr
    /\ _esp32_chain = nullptr
    /\ _esp32_sk = nullptr

Init == InitWindow(TCP_SND_BUF)

\* a context whose stack offers any window up to MaxSend
InitSend == \E win \in 0..MaxSend : InitWindow(win)

Idle == pc = "idle" /\ live

\* history: the record of a write call is kept until the step after its return
ForgetWrite == w' = IF Idle THEN NoWrite ELSE w

(* ------------------------ read / peek family -------------------------- *)
\* what a read outside the payload of a pbuf yields: no byte that was received
Garbage == -1

\* reinterpret_cast<char*>(pb->payload)[i - 1]
ByteAt(payload, i) == IF i <= Len(payload) THEN payload[i] ELSE Garbage

\* read() that runs _consume(1) before it tests the chain
read_consumesFirst ==
    /\ Idle
    /\ op' = "read"
    /\ IF _rx_buf = <<>>
       THEN /\ ret' = 0
            /\ credit' = credit + ConsumeCredit(1)
            /\ UNCHANGED <<rxVars, delivered>>
       ELSE LET c == ByteAt(Head(_rx_buf), _rx_buf_offset + 1)
                n == ConsumeChain(_rx_buf, _rx_buf_offset, 1)
            IN /\ ret' = c
               /\ _rx_buf' = n.buf
               /\ _rx_buf_offset' = n.off
               /\ delivered' = Append(delivered, c)
               /\ credit' = credit + ConsumeCredit(1)
    /\ dst' = <<>>
    /\ UNCHANGED <<_pcb, wrVars, flagVars, cfgVars, _op_start_time, stkVars, now,
                   pc, locVars, nArrived, skipped, nDelays, fin>>
    /\ UNCHANGED <<refVars, kaVars, args>>
    /\ ForgetWrite
    /\ UNCHANGED <<ed, cs, tlsVars>>

\* char read()
read ==
    /\ Idle
    /\ op' = "read"
    /\ IF _rx_buf = <<>>
       THEN /\ ret' = 0
            /\ UNCHANGED <<rxVars, delivered, credit>>
       ELSE LET c == ByteAt(Head(_rx_buf), _rx_buf_offset + 1)
                n == ConsumeChain(_rx_buf, _rx_buf_offset, 1)
            IN /\ ret' = c
               /\ _rx_buf' = n.buf
               /\ _rx_buf_offset' = n.off
               /\ delivered' = Append(delivered, c)
               /\ credit' = credit + ConsumeCredit(1)
    /\ dst' = <<>>
    /\ UNCHANGED <<_pcb, wrVars, flagVars, cfgVars, _op_start_time, stkVars, now,
                   pc, locVars, nArrived, skipped, nDelays, fin>>
    /\ ForgetWrite
    /\ UNCHANGED <<refVars, kaVars, args>>
    /\ UNCHANGED <<ed, cs, tlsVars>>

\* size_t read(char* dst, size_t size)
readBuf(size) ==
    /\ Idle
    /\ op' = "readBuf"
    /\ IF _rx_buf = <<>>
       THEN /\ ret' = 0
            /\ dst' = <<>>
            /\ UNCHANGED <<rxVars, delivered, credit>>
       ELSE LET max_size == tot_len(_rx_buf) - _rx_buf_offset
                r == ReadLoop(_rx_buf, _rx_buf_offset, Min(size, max_size), <<>>, 0)
            IN /\ ret' = Len(r.out)
               /\ dst' = r.out
               /\ _rx_buf' = r.buf
               /\ _rx_buf_offset' = r.off
               /\ delivered' = delivered \o r.out
               /\ credit' = credit + r.cr
    /\ UNCHANGED <<_pcb, wrVars, flagVars, cfgVars, _op_start_time, stkVars, now,
                   pc, locVars, nArrived, skipped, nDelays, fin>>
    /\ ForgetWrite
    /\ UNCHANGED <<refVars, kaVars, args>>
    /\ UNCHANGED <<ed, cs, tlsVars>>

\* peek() that forgets the consumed offset
peekValue_ignoresOffset == IF _rx_buf = <<>> THEN 0 ELSE ByteAt(Head(_rx_buf), 1)

\* the byte peek() returns
peekValue == IF _rx_buf = <<>> THEN 0 ELSE ByteAt(Head(_rx_buf), _rx_buf_offset + 1)

\* peekBytes(dst, size) that copies across the segments of the chain
peekBytesValue_acrossSegments(size) ==
    IF _rx_buf = <<>> THEN <<>>
    ELSE LET max_size == tot_len(_rx_buf) - _rx_buf_offset
         IN SubSeq(Unread(_rx_buf, _rx_buf_offset), 1, Min(size, max_size))

\* the bytes peekBytes(dst, size) copies
peekBytesValue(size) ==
    IF _rx_buf = <<>> THEN <<>>
    ELSE LET max_size  == tot_len(_rx_buf) - _rx_buf_offset
             sz        == Min(size, max_size)
             buf_size  == Len(Head(_rx_buf)) - _rx_buf_offset
             copy_size == Min(sz, buf_size)
         IN SubSeq(Head(_rx_buf), _rx_buf_offset + 1, _rx_buf_offset + copy_size)

\* what peek() and peekBytes() do to the context
PeekEffect == UNCHANGED <<rxVars, credit>>

\* char peek() const
peek ==
    /\ Idle
    /\ op' = "peek"
    /\ ret' = peekValue
    /\ dst' = <<>>
    /\ PeekEffect
    /\ UNCHANGED <<_pcb, wrVars, flagVars, cfgVars, _op_start_time, stkVars, now,
                   pc, locVars, nArrived, delivered, skipped, nDelays, fin>>
    /\ ForgetWrite
    /\ UNCHANGED <<refVars, kaVars, args>>
    /\ UNCHANGED <<ed, cs, tlsVars>>

\* size_t peekBytes(char* dst, size_t size) const
peekBytes(size) ==
    /\ Idle
    /\ op' = "peekBytes"
    /\ dst' = peekBytesValue(size)
    /\ ret' = Len(peekBytesValue(size))
    /\ PeekEffect
    /\ UNCHANGED <<_pcb, wrVars, flagVars, cfgVars, _op_start_time, stkVars, now,
                   pc, locVars, nArrived, delivered, skipped, nDelays, fin>>
    /\ ForgetWrite
    /\ UNCHANGED <<refVars, kaVars, args>>
    /\ UNCHANGED <<ed, cs, tlsVars>>

\* size_t peekAvailable()
peekAvailable == IF _rx_buf = <<>> THEN 0 ELSE Len(Head(_rx_buf)) - _rx_buf_offset

\* const char* peekBuffer(): the bytes behind the pointer, none for nullptr
peekBuffer ==
    IF _rx_buf = <<>> THEN <<>>
    ELSE SubSeq(Head(_rx_buf), _rx_buf_offset + 1, Len(Head(_rx_buf)))

\* _consume reads _rx_buf->len and _rx_buf->next through a null _rx_buf: the
\* call faults, or it goes on with whatever it read, taking the branch that
\* advances the offset or the branch that frees and nulls the chain
NullChainOutcomes == {"fault", "offset", "freed"}

\* void peekConsume(size_t consume): _consume(consume), the chain not tested
peekConsume(consume) ==
    /\ Idle
    /\ op' = "peekConsume"
    /\ args' = <<consume, peekAvailable>>
    /\ IF _rx_buf = <<>>
       THEN \E o \in NullChainOutcomes :
            /\ pc' = IF o = "fault" THEN "fault" ELSE pc
            /\ _rx_buf_offset' = IF o = "offset" THEN _rx_buf_offset + consume ELSE 0
            /\ credit' = IF o = "fault" THEN credit ELSE credit + ConsumeCredit(consume)
            /\ UNCHANGED <<_rx_buf, skipped>>
       ELSE LET n == ConsumeChain(_rx_buf, _rx_buf_offset, consume)
            IN /\ _rx_buf' = n.buf
               /\ _rx_buf_offset' = n.off
               /\ credit' = credit + ConsumeCredit(consume)
               /\ skipped' = skipped + (getSize - getSizeOf(n.buf, n.off))
               /\ UNCHANGED pc
    /\ UNCHANGED <<_pcb, wrVars, flagVars, cfgVars, _op_start_time, stkVars, now,
                   locVars, ret, dst, nArrived, delivered, nDelays, fin>>
    /\ ForgetWrite
    /\ UNCHANGED <<refVars, kaVars>>
    /\ UNCHANGED <<ed, cs, tlsVars>>

\* discard_received() that leaves _rx_buf_offset as it was
discard_received_keepsOffset ==
    /\ Idle
    /\ op' = "discard_received"
    /\ IF _rx_buf = <<>>
       THEN UNCHANGED <<rxVars, credit, skipped>>
       ELSE /\ credit' = IF _pcb THEN credit + tot_len(_rx_buf) ELSE credit
            /\ skipped' = skipped + getSize
            /\ _rx_buf' = <<>>
            /\ UNCHANGED _rx_buf_offset
    /\ UNCHANGED <<_pcb, wrVars, flagVars, cfgVars, _op_start_time, stkVars, now,
                   pc, locVars, ret, dst, nArrived, delivered, nDelays, fin>>
    /\ ForgetWrite
    /\ UNCHANGED <<refVars, kaVars, args>>
    /\ UNCHANGED <<ed, cs, tlsVars>>

\* void discard_received()
discard_received ==
    /\ Idle
    /\ op' = "discard_received"
    /\ IF _rx_buf = <<>>
       THEN UNCHANGED <<rxVars, credit, skipped>>
       ELSE /\ credit' = IF _pcb THEN credit + tot_len(_rx_buf) ELSE credit
            /\ skipped' = skipped + getSize
            /\ _rx_buf' = <<>>
            /\ _rx_buf_offset' = 0
    /\ UNCHANGED <<_pcb, wrVars, flagVars, cfgVars, _op_start_time, stkVars, now,
                   pc, locVars, ret, dst, nArrived, delivered, nDelays, fin>>
    /\ ForgetWrite
    /\ UNCHANGED <<refVars, kaVars, args>>
    /\ UNCHANGED <<ed, cs, tlsVars>>


(* --------------------------- abort / close ---------------------------- *)
\* lwIP err_t values returned to the caller
ERR_OK == 0
ERR_ABRT == -13

\* abort() that does not null the handle
AbortEffect_keepsHandle ==
    IF _pcb
    THEN /\ pcb_cb' = NoCallbacks
         /\ pcb_state' = "FREED"
         /\ calls' = [calls EXCEPT !.tcp_abort = @ + 1]
         /\ UNCHANGED _pcb
    ELSE UNCHANGED <<_pcb, pcb_state, pcb_cb, calls>>

\* the body of abort(): detach the callbacks, tcp_abort, null the handle
AbortEffect ==
    IF _pcb
    THEN /\ pcb_cb' = NoCallbacks
         /\ pcb_state' = "FREED"
         /\ calls' = [calls EXCEPT !.tcp_abort = @ + 1]
         /\ _pcb' = FALSE
    ELSE UNCHANGED <<_pcb, pcb_state, pcb_cb, calls>>

\* err_t abort()
\* abort() that also frees the receive chain
abort_dropsData ==
    /\ Idle
    /\ op' = "abort"
    /\ AbortEffect
    /\ ret' = ERR_ABRT
    /\ _rx_buf' = <<>>
    /\ _rx_buf_offset' = 0
    /\ UNCHANGED <<wrVars, flagVars, cfgVars, _op_start_time, snd_buf, now,
                   pc, locVars, dst, histVars, nDelays>>
    /\ ForgetWrite
    /\ UNCHANGED <<refVars, kaVars, args>>
    /\ UNCHANGED <<ed, cs, tlsVars>>

abort ==
    /\ Idle
    /\ op' = "abort"
    /\ AbortEffect
    /\ ret' = ERR_ABRT
    /\ UNCHANGED <<rxVars, wrVars, flagVars, cfgVars, _op_start_time, snd_buf, now,
                   pc, locVars, dst, histVars, nDelays>>
    /\ ForgetWrite
    /\ UNCHANGED <<refVars, kaVars, args>>
    /\ UNCHANGED <<ed, cs, tlsVars>>

\* close() that reports a refused tcp_close without tcp_abort
close_noAbortOnRefusal(tcp_ok) ==
    /\ Idle
    /\ op' = "close"
    /\ IF _pcb
       THEN /\ pcb_cb' = NoCallbacks
            /\ pcb_state' = IF tcp_ok THEN "FREED" ELSE pcb_state
            /\ calls' = [calls EXCEPT !.tcp_close = @ + 1]
            /\ ret' = IF tcp_ok THEN ERR_OK ELSE ERR_ABRT
            /\ _pcb' = FALSE
       ELSE /\ ret' = ERR_OK
            /\ UNCHANGED <<_pcb, pcb_state, pcb_cb, calls>>
    /\ UNCHANGED <<rxVars, wrVars, flagVars, cfgVars, _op_start_time, snd_buf, now,
                   pc, locVars, dst, histVars, nDelays>>
    /\ UNCHANGED <<refVars, kaVars, args>>
    /\ ForgetWrite
    /\ UNCHANGED <<ed, cs, tlsVars>>

\* err_t close(); tcp_ok is whether tcp_close returns ERR_OK
close(tcp_ok) ==
    /\ Idle
    /\ op' = "close"
    /\ IF _pcb
       THEN /\ pcb_cb' = NoCallbacks
            /\ pcb_state' = "FREED"
            /\ calls' = [calls EXCEPT !.tcp_close = @ + 1,
                                      !.tcp_abort = IF tcp_ok THEN @ ELSE @ + 1]
            /\ ret' = IF tcp_ok THEN ERR_OK ELSE ERR_ABRT
            /\ _pcb' = FALSE
       ELSE /\ ret' = ERR_OK
            /\ UNCHANGED <<_pcb, pcb_state, pcb_cb, calls>>
    /\ UNCHANGED <<rxVars, wrVars, flagVars, cfgVars, _op_start_time, snd_buf, now,
                   pc, locVars, dst, histVars, nDelays>>
    /\ ForgetWrite
    /\ UNCHANGED <<refVars, kaVars, args>>
    /\ UNCHANGED <<ed, cs, tlsVars>>

\* void setSync(bool sync)
setSync(sync) ==
    /\ Idle
    /\ op' = "setSync"
    /\ _sync' = sync
    /\ UNCHANGED <<_pcb, rxVars, wrVars, flagVars, _timeout_ms, _op_start_time, stkVars,
                   now, pc, locVars, ret, dst, histVars, nDelays>>
    /\ ForgetWrite
    /\ UNCHANGED <<refVars, kaVars, args>>
    /\ UNCHANGED <<ed, cs, tlsVars>>

(* ----------------------------- callbacks ------------------------------ *)
\* the stack runs callbacks between two calls of the application and inside delay()
InYield == pc \in {"idle", "connect_wait", "write_wait"}

InWrite == pc \in {"ws_entry", "ws_loop", "wfs_check", "write_wait", "wua"}

PcbActive == pcb_state \in {"SYN_SENT", "ESTABLISHED", "CLOSE_WAIT"}

\* _notify_error(): the two wait flags afterwards
_notify_error ==
    IF _connect_pending \/ _send_waiting
    THEN /\ _send_waiting' = FALSE
         /\ _connect_pending' = FALSE
    ELSE UNCHANGED flagVars

\* _write_some_from_cb() that leaves _send_waiting as it is
_write_some_from_cb_keepsWaiting == UNCHANGED _send_waiting

\* _write_some_from_cb()
_write_some_from_cb ==
    IF _send_waiting
    THEN _send_waiting' = FALSE
    ELSE UNCHANGED _send_waiting

\* history: the connection was closed under a running write
NoteClosed ==
    w' = IF InWrite /\ ~w.closed
         THEN [w EXCEPT !.closed = TRUE, !.at_close = _written]
         ELSE IF Idle THEN NoWrite ELSE w

\* the payload of the next arriving pbuf of length len
NextPayload(len) == [i \in 1..len |-> nArrived + i]

\* _s_recv -> _recv(pcb, pb, err) with pb != 0: a pbuf of len bytes arrives
_recv_data(len) ==
    /\ InYield
    /\ pcb_state = "ESTABLISHED" /\ pcb_cb.recv /\ pcb_cb.arg
    /\ nArrived + len <= MaxArrive
    /\ op' = "_recv"
    /\ IF _rx_buf # <<>>
       THEN /\ _rx_buf' = pbuf_cat(_rx_buf, NextPayload(len))
            /\ UNCHANGED _rx_buf_offset
       ELSE /\ _rx_buf' = <<NextPayload(len)>>
            /\ _rx_buf_offset' = 0
    /\ nArrived' = nArrived + len
    /\ ret' = ERR_OK
    /\ UNCHANGED <<_pcb, wrVars, flagVars, cfgVars, _op_start_time, stkVars, now,
                   pc, locVars, dst, delivered, skipped, credit, nDelays, fin>>
    /\ ForgetWrite
    /\ UNCHANGED <<refVars, kaVars, args>>
    /\ UNCHANGED <<ed, cs, tlsVars>>

\* _recv(pcb, 0, err) that frees the receive chain when the peer closes
_recv_fin_dropsData ==
    /\ InYield
    /\ pcb_state = "ESTABLISHED" /\ pcb_cb.recv /\ pcb_cb.arg
    /\ op' = "_recv_fin"
    /\ _notify_error
    /\ IF _rx_buf # <<>> /\ tot_len(_rx_buf) # 0
       THEN /\ pcb_state' = "CLOSE_WAIT"
            /\ ret' = ERR_OK
            /\ UNCHANGED <<_pcb, pcb_cb, calls>>
       ELSE /\ AbortEffect
            /\ ret' = ERR_ABRT
    /\ NoteClosed
    /\ fin' = [seen |-> TRUE, M |-> getSize, base |-> Len(delivered), skip0 |-> skipped]
    /\ _rx_buf' = <<>>
    /\ _rx_buf_offset' = 0
    /\ UNCHANGED <<wrVars, cfgVars, _op_start_time, snd_buf, now,
                   pc, locVars, dst, nArrived, delivered, skipped, credit, nDelays>>
    /\ UNCHANGED <<refVars, kaVars, args>>
    /\ UNCHANGED <<ed, cs, tlsVars>>

\* _s_recv -> _recv(pcb, 0, err): the peer closed its side (pcb goes to CLOSE_WAIT)
\* _recv with a null payload that never aborts
_recv_fin_keepsHandle ==
    /\ InYield
    /\ pcb_state = "ESTABLISHED" /\ pcb_cb.recv /\ pcb_cb.arg
    /\ op' = "_recv_fin"
    /\ _notify_error
    /\ pcb_state' = "CLOSE_WAIT"
    /\ ret' = ERR_OK
    /\ NoteClosed
    /\ fin' = [seen |-> TRUE, M |-> getSize, base |-> Len(delivered), skip0 |-> skipped]
    /\ UNCHANGED <<_pcb, pcb_cb, calls, rxVars, wrVars, cfgVars, _op_start_time, snd_buf,
                   now, pc, locVars, dst, nArrived, delivered, skipped, credit, nDelays>>
    /\ UNCHANGED <<refVars, kaVars, args>>
    /\ UNCHANGED <<ed, cs, tlsVars>>

_recv_fin ==
    /\ InYield
    /\ pcb_state = "ESTABLISHED" /\ pcb_cb.recv /\ pcb_cb.arg
    /\ op' = "_recv_fin"
    /\ _notify_error
    /\ IF _rx_buf # <<>> /\ tot_len(_rx_buf) # 0
       THEN /\ pcb_state' = "CLOSE_WAIT"
            /\ ret' = ERR_OK
            /\ UNCHANGED <<_pcb, pcb_cb, calls>>
       ELSE /\ AbortEffect
            /\ ret' = ERR_ABRT
    /\ NoteClosed
    /\ fin' = [seen |-> TRUE, M |-> getSize, base |-> Len(delivered), skip0 |-> skipped]
    /\ UNCHANGED <<rxVars, wrVars, cfgVars, _op_start_time, snd_buf, now,
                   pc, locVars, dst, nArrived, delivered, skipped, credit, nDelays>>
    /\ UNCHANGED <<refVars, kaVars, args>>
    /\ UNCHANGED <<ed, cs, tlsVars>>

\* _s_error -> _error(err): lwIP has released the pcb
_error ==
    /\ InYield
    /\ PcbActive /\ pcb_cb.err /\ pcb_cb.arg
    /\ op' = "_error"
    /\ pcb_cb' = [pcb_cb EXCEPT !.arg = FALSE, !.sent = FALSE, !.recv = FALSE, !.err = FALSE]
    /\ pcb_state' = "FREED"
    /\ _pcb' = FALSE
    /\ _notify_error
    /\ NoteClosed
    /\ UNCHANGED <<rxVars, wrVars, cfgVars, _op_start_time, snd_buf, calls, now,
                   pc, locVars, ret, dst, histVars, nDelays>>
    /\ UNCHANGED <<refVars, kaVars, args>>
    /\ UNCHANGED <<ed, cs, tlsVars>>

\* _s_connected -> _connected(pcb, err): the handshake completed
_connected ==
    /\ InYield
    /\ pcb_state = "SYN_SENT" /\ pcb_cb.arg
    /\ op' = "_connected"
    /\ pcb_state' = "ESTABLISHED"
    /\ _connect_pending' = FALSE
    /\ ret' = ERR_OK
    /\ UNCHANGED <<_pcb, rxVars, wrVars, _send_waiting, cfgVars, _op_start_time,
                   pcb_cb, snd_buf, calls, now, pc, locVars, dst, histVars, nDelays>>
    /\ ForgetWrite
    /\ UNCHANGED <<refVars, kaVars, args>>
    /\ UNCHANGED <<ed, cs, tlsVars>>

\* _s_acked -> _acked(pcb, len): the peer acknowledged k bytes
_acked(k) ==
    /\ InYield \/ pc = "wua"
    /\ pcb_state \in {"ESTABLISHED", "CLOSE_WAIT"} /\ pcb_cb.sent /\ pcb_cb.arg
    /\ snd_buf + k <= TCP_SND_BUF
    /\ op' = "_acked"
    /\ snd_buf' = snd_buf + k
    /\ _write_some_from_cb
    /\ ret' = ERR_OK
    /\ UNCHANGED <<_pcb, rxVars, wrVars, _connect_pending, cfgVars, _op_start_time,
                   pcb_state, pcb_cb, calls, now, pc, locVars, dst, histVars, nDelays>>
    /\ ForgetWrite
    /\ UNCHANGED <<refVars, kaVars, args>>
    /\ UNCHANGED <<ed, cs, tlsVars>>

\* _s_poll -> _poll(pcb)
_poll ==
    /\ InYield
    /\ PcbActive /\ pcb_cb.poll /\ pcb_cb.arg
    /\ op' = "_poll"
    /\ _write_some_from_cb
    /\ ret' = ERR_OK
    /\ UNCHANGED <<_pcb, rxVars, wrVars, _connect_pending, cfgVars, _op_start_time,
                   stkVars, now, pc, locVars, dst, histVars, nDelays>>
    /\ ForgetWrite
    /\ UNCHANGED <<refVars, kaVars, args>>
    /\ UNCHANGED <<ed, cs, tlsVars>>

(* ------------------------------ connect ------------------------------- *)
\* uint32_t values are kept as their 32-bit pattern read as int;
\* a < b on two such patterns compared as unsigned
ULess(a, b) == IF (a < 0) = (b < 0) THEN a < b ELSE b < 0

\* the loop test written against a deadline, millis() < start_ms + timeout_ms
esp_delay_blocked_deadline(t, blocked) == ULess(t, start_ms + _timeout_ms) /\ blocked

\* esp_delay: the loop test, at clock t
esp_delay_blocked(t, blocked) == ULess(t - start_ms, _timeout_ms) /\ blocked

\* the locals of a blocking call go out of scope
LocalsReset ==
    /\ start_ms' = 0
    /\ scale' = 0
    /\ has_written' = FALSE
    /\ prevsndbuf' = -1
    /\ last_sent' = 0

\* a blocking call returns v; the clock is counted from the start of a call
Return(name, v) ==
    /\ op' = name
    /\ ret' = v
    /\ pc' = "idle"
    /\ now' = 0
    /\ nDelays' = 0
    /\ LocalsReset

\* whether tcp_connect can return ERR_OK
tcp_connect_ok == IF _pcb /\ pcb_state = "CLOSED" THEN {TRUE, FALSE} ELSE {FALSE}

\* connect() that raises _connect_pending before it tests the result of
\* tcp_connect
connect_pendingFirst ==
    /\ Idle
    /\ \E ok \in tcp_connect_ok :
        IF ~ok
        THEN /\ op' = "connect"
             /\ ret' = 0
             /\ _connect_pending' = TRUE
             /\ UNCHANGED <<_op_start_time, pcb_state, pc, start_ms>>
        ELSE /\ op' = "connect_call"
             /\ pcb_state' = "SYN_SENT"
             /\ _connect_pending' = TRUE
             /\ _op_start_time' = now
             /\ start_ms' = now
             /\ pc' = IF ULess(now - now, _timeout_ms) THEN "connect_wait" ELSE "connect_tail"
             /\ UNCHANGED ret
    /\ UNCHANGED <<_pcb, rxVars, wrVars, _send_waiting, cfgVars, pcb_cb, snd_buf, calls,
                   now, scale, has_written, prevsndbuf, last_sent, dst, histVars,
                   nDelays>>
    /\ ForgetWrite
    /\ UNCHANGED <<refVars, kaVars, args>>
    /\ UNCHANGED <<ed, cs, tlsVars>>

\* int connect(ip_addr_t* addr, uint16_t port), up to the first test of esp_delay
connect ==
    /\ Idle
    /\ \E ok \in tcp_connect_ok :
        IF ~ok
        THEN /\ op' = "connect"
             /\ ret' = 0
             /\ UNCHANGED <<_connect_pending, _op_start_time, pcb_state, pc, start_ms>>
        ELSE /\ op' = "connect_call"
             /\ pcb_state' = "SYN_SENT"
             /\ _connect_pending' = TRUE
             /\ _op_start_time' = now
             /\ start_ms' = now
             /\ pc' = IF ULess(now - now, _timeout_ms) THEN "connect_wait" ELSE "connect_tail"
             /\ UNCHANGED ret
    /\ UNCHANGED <<_pcb, rxVars, wrVars, _send_waiting, cfgVars, pcb_cb, snd_buf, calls,
                   now, scale, has_written, prevsndbuf, last_sent, dst, histVars,
                   nDelays>>
    /\ ForgetWrite
    /\ UNCHANGED <<refVars, kaVars, args>>
    /\ UNCHANGED <<ed, cs, tlsVars>>

\* connect(): delay(1) returns after d ms and esp_delay tests again
connect_resume(d) ==
    /\ pc = "connect_wait"
    /\ nDelays < MaxDelays
    /\ d > 1 => esp_delay_blocked(now + d - 1, _connect_pending)
    /\ now' = now + d
    /\ nDelays' = nDelays + 1
    /\ op' = "esp_delay"
    /\ pc' = IF esp_delay_blocked(now + d, _connect_pending)
             THEN "connect_wait" ELSE "connect_tail"
    /\ UNCHANGED <<_pcb, rxVars, wrVars, flagVars, cfgVars, _op_start_time, stkVars,
                   locVars, ret, dst, histVars, w>>
    /\ UNCHANGED <<refVars, kaVars, args>>
    /\ UNCHANGED <<ed, cs, tlsVars>>

\* connect() that returns 0 on a timeout without abort()
connect_tail_noAbort ==
    /\ pc = "connect_tail"
    /\ _connect_pending' = FALSE
    /\ IF ~_pcb
       THEN /\ Return("connect", 0)
            /\ w' = [w EXCEPT !.ctail = "cabrt", !.cpend = _connect_pending]
            /\ UNCHANGED <<_pcb, pcb_state, pcb_cb, calls>>
       ELSE IF state # "ESTABLISHED"
       THEN /\ Return("connect", 0)
            /\ w' = [w EXCEPT !.ctail = "ctmo", !.cpend = _connect_pending]
            /\ UNCHANGED <<_pcb, pcb_state, pcb_cb, calls>>
       ELSE /\ Return("connect", 1)
            /\ w' = [w EXCEPT !.ctail = "ok", !.cpend = _connect_pending]
            /\ UNCHANGED <<_pcb, pcb_state, pcb_cb, calls>>
    /\ UNCHANGED <<rxVars, wrVars, _send_waiting, cfgVars, _op_start_time, snd_buf,
                   dst, histVars>>
    /\ UNCHANGED <<refVars, kaVars, args>>
    /\ UNCHANGED <<ed, cs, tlsVars>>

\* connect() that reports success for any handle that survived the wait
connect_tail_noStateCheck ==
    /\ pc = "connect_tail"
    /\ _connect_pending' = FALSE
    /\ IF ~_pcb
       THEN /\ Return("connect", 0)
            /\ w' = [w EXCEPT !.ctail = "cabrt", !.cpend = _connect_pending]
       ELSE /\ Return("connect", 1)
            /\ w' = [w EXCEPT !.ctail = "ok", !.cpend = _connect_pending]
    /\ UNCHANGED <<_pcb, pcb_state, pcb_cb, calls>>
    /\ UNCHANGED <<rxVars, wrVars, _send_waiting, cfgVars, _op_start_time, snd_buf,
                   dst, histVars>>
    /\ UNCHANGED <<refVars, kaVars, args>>
    /\ UNCHANGED <<ed, cs, tlsVars>>

\* connect(): what follows esp_delay
connect_tail ==
    /\ pc = "connect_tail"
    /\ _connect_pending' = FALSE
    /\ IF ~_pcb
       THEN /\ Return("connect", 0)
            /\ w' = [w EXCEPT !.ctail = "cabrt", !.cpend = _connect_pending]
            /\ UNCHANGED <<_pcb, pcb_state, pcb_cb, calls>>
       ELSE IF state # "ESTABLISHED"
       THEN /\ AbortEffect
            /\ Return("connect", 0)
            /\ w' = [w EXCEPT !.ctail = "ctmo", !.cpend = _connect_pending]
       ELSE /\ Return("connect", 1)
            /\ w' = [w EXCEPT !.ctail = "ok", !.cpend = _connect_pending]
            /\ UNCHANGED <<_pcb, pcb_state, pcb_cb, calls>>
    /\ UNCHANGED <<rxVars, wrVars, _send_waiting, cfgVars, _op_start_time, snd_buf,
                   dst, histVars>>
    /\ UNCHANGED <<refVars, kaVars, args>>
    /\ UNCHANGED <<ed, cs, tlsVars>>

(* ------------------------------- write -------------------------------- *)
\* _is_timeout()
_is_timeout(start) == ULess(_timeout_ms, now - start)

\* 1 << scale
RECURSIVE Pow2(_)
Pow2(n) == IF n = 0 THEN 1 ELSE 2 * Pow2(n - 1)

\* _write_some: next_chunk_size for this attempt
next_chunk_size ==
    LET remaining == _datalen - _written
        n == Min(snd_buf, remaining)
    IN IF n > Pow2(scale) THEN n \div Pow2(scale) ELSE n

\* the flags handed to tcp_write with the chunk: TCP_WRITE_FLAG_MORE and
\* TCP_WRITE_FLAG_COPY taken as set with respect to the total length of the call
tcp_write_flags_againstTotal ==
    [more |-> next_chunk_size < _datalen, copy |-> ~_sync]

\* the flags handed to tcp_write with the chunk: TCP_WRITE_FLAG_MORE,
\* TCP_WRITE_FLAG_COPY
tcp_write_flags ==
    LET remaining == _datalen - _written
    IN [more |-> next_chunk_size < remaining, copy |-> ~_sync]

\* what tcp_write(pcb, buf, len, flags) can return
tcp_write_results(len) ==
    IF pcb_state \notin {"SYN_SENT", "ESTABLISHED", "CLOSE_WAIT"} THEN {"ERR_CONN"}
    ELSE IF len > snd_buf THEN {"ERR_MEM"}
    ELSE {"ERR_OK", "ERR_MEM"}

\* write() without the test of the handle
write_noNullCheck(dl) ==
    /\ Idle
    /\ op' = "write_call"
    /\ _datasource' = TRUE
    /\ _datalen' = dl
    /\ _written' = 0
    /\ _op_start_time' = now
    /\ pc' = "ws_entry"
    /\ w' = [NoWrite EXCEPT !.len = dl, !.sync = _sync,
                            !.pre = (state = "ESTABLISHED" /\ snd_buf >= dl)]
    /\ UNCHANGED ret
    /\ UNCHANGED <<_pcb, rxVars, flagVars, cfgVars, stkVars, now, locVars, dst,
                   histVars, nDelays>>
    /\ UNCHANGED <<refVars, kaVars, args>>
    /\ UNCHANGED <<ed, cs, tlsVars>>

\* size_t write(const char* ds, const size_t dl), up to the first _write_some
write(dl) ==
    /\ Idle
    /\ IF ~_pcb
       THEN /\ op' = "write"
            /\ ret' = 0
            /\ w' = NoWrite
            /\ UNCHANGED <<wrVars, _op_start_time, pc>>
       ELSE /\ op' = "write_call"
            /\ _datasource' = TRUE
            /\ _datalen' = dl
            /\ _written' = 0
            /\ _op_start_time' = now
            /\ pc' = "ws_entry"
            /\ w' = [NoWrite EXCEPT !.len = dl, !.sync = _sync,
                                    !.pre = (state = "ESTABLISHED" /\ snd_buf >= dl)]
            /\ UNCHANGED ret
    /\ UNCHANGED <<_pcb, rxVars, flagVars, cfgVars, stkVars, now, locVars, dst,
                   histVars, nDelays>>
    /\ UNCHANGED <<refVars, kaVars, args>>
    /\ UNCHANGED <<ed, cs, tlsVars>>

\* _write_some(): entry test and initialisation of the locals
_write_some_entry ==
    /\ pc = "ws_entry"
    /\ op' = "_write_some"
    /\ has_written' = FALSE
    /\ scale' = 0
    /\ pc' = IF ~_datasource \/ ~_pcb THEN "wfs_check" ELSE "ws_loop"
    /\ UNCHANGED <<_pcb, rxVars, wrVars, flagVars, cfgVars, _op_start_time, stkVars, now,
                   start_ms, prevsndbuf, last_sent, ret, dst, histVars, nDelays, w>>
    /\ UNCHANGED <<refVars, kaVars, args>>
    /\ UNCHANGED <<ed, cs, tlsVars>>

\* _write_some() that never calls tcp_output
_write_some_exit_noFlush(hw, wn) ==
    /\ has_written' = hw
    /\ pc' = "wfs_check"
    /\ w' = wn

\* _write_some(): leaving the while loop with has_written = hw; tcp_output if it wrote
_write_some_exit(hw, wn) ==
    /\ has_written' = hw
    /\ pc' = "wfs_check"
    /\ w' = IF hw THEN [wn EXCEPT !.flush_ws = @ + 1] ELSE wn

\* _write_some(): one turn of the while loop
_write_some_loop ==
    /\ pc = "ws_loop"
    /\ op' = "_write_some"
    /\ IF ~(_written < _datalen)
       THEN /\ _write_some_exit(has_written, w)
            /\ UNCHANGED <<_written, snd_buf, scale>>
       ELSE IF state = "CLOSED"
       THEN /\ has_written' = FALSE
            /\ pc' = "wfs_check"
            /\ UNCHANGED <<_written, snd_buf, scale, w>>
       ELSE IF next_chunk_size = 0
       THEN /\ _write_some_exit(has_written, w)
            /\ UNCHANGED <<_written, snd_buf, scale>>
       ELSE \E err \in tcp_write_results(next_chunk_size) :
            LET wc == [w EXCEPT !.late_chunk = @ \/ w.closed,
                                !.mem = @ \/ (err = "ERR_MEM"),
                                !.chunk = next_chunk_size,
                                !.flags = tcp_write_flags]
            IN
            IF err = "ERR_OK"
            THEN /\ _written' = _written + next_chunk_size
                 /\ snd_buf' = snd_buf - next_chunk_size
                 /\ has_written' = TRUE
                 /\ w' = wc
                 /\ UNCHANGED <<scale, pc>>
            ELSE IF err = "ERR_MEM" /\ scale < MaxScale
            THEN /\ scale' = scale + 1
                 /\ w' = wc
                 /\ UNCHANGED <<_written, snd_buf, has_written, pc>>
            ELSE /\ _write_some_exit(has_written, wc)
                 /\ UNCHANGED <<_written, snd_buf, scale>>
    /\ UNCHANGED <<_pcb, rxVars, _datasource, _datalen, flagVars, cfgVars, _op_start_time,
                   pcb_state, pcb_cb, calls, now, start_ms, prevsndbuf, last_sent,
                   ret, dst, histVars, nDelays>>
    /\ UNCHANGED <<refVars, kaVars, args>>
    /\ UNCHANGED <<ed, cs, tlsVars>>

\* _write_from_source(): after _write_some returned has_written
_write_from_source_check ==
    /\ pc = "wfs_check"
    /\ LET st == IF has_written THEN now ELSE _op_start_time IN
       /\ _op_start_time' = st
       /\ IF _written = _datalen \/ _is_timeout(st) \/ state = "CLOSED"
          THEN /\ _datasource' = FALSE
               /\ _datalen' = 0
               /\ UNCHANGED _send_waiting
               /\ IF _sync /\ _pcb
                  THEN /\ prevsndbuf' = -1
                       /\ last_sent' = now
                       /\ pc' = "wua"
                       /\ op' = "wait_until_acked"
                       /\ UNCHANGED <<ret, now, nDelays, start_ms, scale, has_written>>
                  ELSE Return("write", _written)
          ELSE /\ start_ms' = now
               /\ op' = "esp_delay"
               /\ IF ULess(now - now, _timeout_ms)
                  THEN /\ _send_waiting' = TRUE
                       /\ pc' = "write_wait"
                  ELSE /\ _send_waiting' = FALSE
                       /\ pc' = "ws_entry"
               /\ UNCHANGED <<_datasource, _datalen, prevsndbuf, last_sent, ret, now,
                              nDelays, scale, has_written>>
    /\ UNCHANGED <<_pcb, rxVars, _written, _connect_pending, cfgVars, stkVars,
                   dst, histVars, w>>
    /\ UNCHANGED <<refVars, kaVars, args>>
    /\ UNCHANGED <<ed, cs, tlsVars>>

\* _write_from_source(): delay(1) returns after d ms and esp_delay tests again
\* the wait of a write that leaves _send_waiting as the wait left it
write_resume_keepsWaiting(d) ==
    /\ pc = "write_wait"
    /\ nDelays < MaxDelays
    /\ d > 1 => esp_delay_blocked(now + d - 1, _send_waiting)
    /\ now' = now + d
    /\ nDelays' = nDelays + 1
    /\ op' = "esp_delay"
    /\ pc' = IF esp_delay_blocked(now + d, _send_waiting) THEN pc ELSE "ws_entry"
    /\ UNCHANGED <<_pcb, rxVars, wrVars, flagVars, cfgVars, _op_start_time,
                   stkVars, locVars, ret, dst, histVars, w>>
    /\ UNCHANGED <<refVars, kaVars, args>>
    /\ UNCHANGED <<ed, cs, tlsVars>>

write_resume(d) ==
    /\ pc = "write_wait"
    /\ nDelays < MaxDelays
    /\ d > 1 => esp_delay_blocked(now + d - 1, _send_waiting)
    /\ now' = now + d
    /\ nDelays' = nDelays + 1
    /\ op' = "esp_delay"
    /\ IF esp_delay_blocked(now + d, _send_waiting)
       THEN UNCHANGED <<_send_waiting, pc>>
       ELSE /\ _send_waiting' = FALSE
            /\ pc' = "ws_entry"
    /\ UNCHANGED <<_pcb, rxVars, wrVars, _connect_pending, cfgVars, _op_start_time,
                   stkVars, locVars, ret, dst, histVars, w>>
    /\ UNCHANGED <<refVars, kaVars, args>>
    /\ UNCHANGED <<ed, cs, tlsVars>>

\* wait_until_acked(): one turn of its loop, d ms after the previous one
wait_until_acked_iter(d) ==
    /\ pc = "wua"
    /\ d = 0 \/ nDelays < MaxDelays
    /\ prevsndbuf = -1 => d = 0   \* the first test directly follows last_sent = millis()
    /\ IF ULess(WIFICLIENT_MAX_FLUSH_WAIT_MS, now + d - last_sent)
       THEN /\ Return("write", _written)
            /\ w' = [w EXCEPT !.acked = FALSE]
       ELSE IF state # "ESTABLISHED" \/ snd_buf = TCP_SND_BUF
       THEN /\ Return("write", _written)
            /\ w' = [w EXCEPT !.flush_wua = Min(@ + 1, MaxCount), !.acked = TRUE]
       ELSE /\ op' = "wait_until_acked"
            /\ now' = now + d
            /\ nDelays' = IF d = 0 THEN nDelays ELSE nDelays + 1
            /\ prevsndbuf' = snd_buf
            /\ last_sent' = IF snd_buf # prevsndbuf THEN now + d ELSE last_sent
            /\ w' = [w EXCEPT !.flush_wua = Min(@ + 1, MaxCount)]
            /\ UNCHANGED <<pc, ret, start_ms, scale, has_written>>
    /\ UNCHANGED <<_pcb, rxVars, wrVars, flagVars, cfgVars, _op_start_time, stkVars,
                   dst, histVars>>
    /\ UNCHANGED <<refVars, kaVars, args>>
    /\ UNCHANGED <<ed, cs, tlsVars>>

(* --------------------------- configuration ---------------------------- *)
\* range of int (setTimeout takes an int)
INT_MAX == 2147483647
INT_MIN == -INT_MAX - 1
\* range of uint16_t and uint8_t (arguments and results of the keep-alive calls)
UINT16_MAX == 65535
UINT8_MAX == 255

\* arguments tried for setTimeout
TimeoutArgs == {-1, 0, 1, 99, 100, DefaultTimeout, INT_MAX}
\* arguments tried for keepAlive: seconds and probe counts
KeepAliveSecs == {0, 1, 66, UINT16_MAX}
KeepAliveCounts == {0, 1, UINT8_MAX}

\* timeout_ms *= 1000 leaves the range of int (undefined behaviour)
MulOverflows(t) == t < -(INT_MAX \div 1000)

\* what the undefined multiplication may leave in timeout_ms
OverflowResults == {INT_MIN, 0, INT_MAX}

\* setTimeout: the value of the local timeout_ms that is stored
ScaledTimeouts(t) ==
    IF t < 100
    THEN IF MulOverflows(t) THEN OverflowResults ELSE {t * 1000}
    ELSE {t}

\* void setTimeout(int timeout_ms); the int is stored in the uint32_t field
setTimeout(t) ==
    /\ Idle
    /\ op' = "setTimeout"
    /\ args' = <<t>>
    /\ \E timeout_ms \in ScaledTimeouts(t) : _timeout_ms' = timeout_ms
    /\ UNCHANGED <<_pcb, rxVars, wrVars, flagVars, _sync, _op_start_time, stkVars,
                   now, pc, locVars, ret, dst, histVars, nDelays, refVars, kaVars>>
    /\ ForgetWrite
    /\ UNCHANGED <<ed, cs, tlsVars>>

\* int getTimeout() const: the uint32_t field converted to int
getTimeout == _timeout_ms

\* keepAlive() that multiplies in 16 bits
keepAlive_16bit(idle_sec, intv_sec, count) ==
    /\ Idle
    /\ _pcb
    /\ op' = "keepAlive"
    /\ args' = <<idle_sec, intv_sec, count>>
    /\ IF idle_sec # 0 /\ intv_sec # 0 /\ count # 0
       THEN /\ so_keepalive' = TRUE
            /\ keep_idle' = (1000 * idle_sec) % (UINT16_MAX + 1)
            /\ keep_intvl' = (1000 * intv_sec) % (UINT16_MAX + 1)
            /\ keep_cnt' = count
       ELSE /\ so_keepalive' = FALSE
            /\ UNCHANGED <<keep_idle, keep_intvl, keep_cnt>>
    /\ UNCHANGED <<_pcb, rxVars, wrVars, flagVars, cfgVars, _op_start_time, stkVars,
                   now, pc, locVars, ret, dst, histVars, nDelays, refVars, nodelay>>
    /\ ForgetWrite
    /\ UNCHANGED <<ed, cs, tlsVars>>

\* void keepAlive(uint16_t idle_sec, uint16_t intv_sec, uint8_t count);
\* _pcb is dereferenced without a test, the caller holds a handle.
\* (uint32_t)1000 * idle_sec is at most 65 535 000 and does not wrap
keepAlive(idle_sec, intv_sec, count) ==
    /\ Idle
    /\ _pcb
    /\ op' = "keepAlive"
    /\ args' = <<idle_sec, intv_sec, count>>
    /\ IF idle_sec # 0 /\ intv_sec # 0 /\ count # 0
       THEN /\ so_keepalive' = TRUE
            /\ keep_idle' = 1000 * idle_sec
            /\ keep_intvl' = 1000 * intv_sec
            /\ keep_cnt' = count
       ELSE /\ so_keepalive' = FALSE
            /\ UNCHANGED <<keep_idle, keep_intvl, keep_cnt>>
    /\ UNCHANGED <<_pcb, rxVars, wrVars, flagVars, cfgVars, _op_start_time, stkVars,
                   now, pc, locVars, ret, dst, histVars, nDelays, refVars, nodelay>>
    /\ ForgetWrite
    /\ UNCHANGED <<ed, cs, tlsVars>>

\* bool isKeepAliveEnabled() const
isKeepAliveEnabled == so_keepalive

\* getKeepAliveIdle() that does not test isKeepAliveEnabled()
getKeepAliveIdle_noEnabledTest == ((keep_idle + 500) \div 1000) % (UINT16_MAX + 1)

\* uint16_t getKeepAliveIdle() const
getKeepAliveIdle ==
    IF isKeepAliveEnabled THEN ((keep_idle + 500) \div 1000) % (UINT16_MAX + 1) ELSE 0

\* uint16_t getKeepAliveInterval() const
getKeepAliveInterval ==
    IF isKeepAliveEnabled THEN ((keep_intvl + 500) \div 1000) % (UINT16_MAX + 1) ELSE 0

\* uint8_t getKeepAliveCount() const
getKeepAliveCount ==
    IF isKeepAliveEnabled THEN keep_cnt % (UINT8_MAX + 1) ELSE 0

(* ------------------------------ lifetime ------------------------------ *)
\* the value an int8_t holds after an increment or decrement gave x
Int8(x) == ((x + 128) % 256) - 128

\* void ref()
ref ==
    /\ Idle
    /\ op' = "ref"
    /\ _refcnt' = Int8(_refcnt + 1)
    /\ UNCHANGED <<_pcb, rxVars, wrVars, flagVars, cfgVars, _op_start_time, stkVars,
                   now, pc, locVars, ret, dst, histVars, nDelays,
                   _discard_cb, live, teardown, kaVars, args>>
    /\ ForgetWrite
    /\ UNCHANGED <<ed, cs, tlsVars>>

\* the part of the context the releasing unref() works on
Ctx ==
    [pcb |-> _pcb, buf |-> _rx_buf, off |-> _rx_buf_offset, credit |-> credit,
     skipped |-> skipped, pcb_state |-> pcb_state, pcb_cb |-> pcb_cb, calls |-> calls,
     live |-> live]

\* unref() that invokes the discard callback before it closes the transport
TeardownSteps_cbFirst == <<"_discard_cb", "discard_received", "close", "delete">>

\* the body of unref() without the call of close()
TeardownSteps_noClose == <<"discard_received", "_discard_cb", "delete">>

\* what unref() does when the count reaches zero, in program order
TeardownSteps == <<"discard_received", "close", "_discard_cb", "delete">>

\* one step of the teardown applied to the context c
RunStep(step, c, tcp_ok) ==
    CASE step = "discard_received" ->
            IF c.buf = <<>> THEN c
            ELSE [c EXCEPT !.credit = IF c.pcb THEN @ + tot_len(c.buf) ELSE @,
                           !.skipped = @ + getSizeOf(c.buf, c.off),
                           !.buf = <<>>,
                           !.off = 0]
      [] step = "close" ->
            IF c.pcb
            THEN [c EXCEPT !.pcb_cb = NoCallbacks,
                           !.pcb_state = "FREED",
                           !.calls = [@ EXCEPT !.tcp_close = @ + 1,
                                               !.tcp_abort = IF tcp_ok THEN @ ELSE @ + 1],
                           !.pcb = FALSE]
            ELSE c
      [] step = "_discard_cb" -> c
      [] step = "delete" -> [c EXCEPT !.live = FALSE]

\* the steps in order; the log records what each step found
RECURSIVE RunSteps(_, _, _, _)
RunSteps(steps, c, log, tcp_ok) ==
    IF steps = <<>> THEN [c |-> c, log |-> log]
    ELSE RunSteps(Tail(steps), RunStep(Head(steps), c, tcp_ok),
                  Append(log, [step |-> Head(steps), pcb |-> c.pcb, buf |-> c.buf]),
                  tcp_ok)

\* unref() that releases the context while one reference is left
unref_releasesAtOne(tcp_ok) ==
    /\ Idle
    /\ op' = "unref"
    /\ _refcnt' = Int8(_refcnt - 1)
    /\ LET steps == IF _discard_cb THEN TeardownSteps
                    ELSE SelectSeq(TeardownSteps, LAMBDA x : x # "_discard_cb")
           r == IF Int8(_refcnt - 1) <= 1
                THEN RunSteps(steps, Ctx, <<>>, tcp_ok)
                ELSE [c |-> Ctx, log |-> <<>>]
       IN /\ _pcb' = r.c.pcb
          /\ _rx_buf' = r.c.buf
          /\ _rx_buf_offset' = r.c.off
          /\ credit' = r.c.credit
          /\ skipped' = r.c.skipped
          /\ pcb_state' = r.c.pcb_state
          /\ pcb_cb' = r.c.pcb_cb
          /\ calls' = r.c.calls
          /\ live' = r.c.live
          /\ teardown' = teardown \o r.log
    /\ UNCHANGED <<wrVars, flagVars, cfgVars, _op_start_time, snd_buf, now, pc, locVars,
                   ret, dst, nArrived, delivered, fin, nDelays, _discard_cb, kaVars, args>>
    /\ ForgetWrite
    /\ UNCHANGED <<ed, cs, tlsVars>>

\* void unref(); tcp_ok is whether tcp_close returns ERR_OK
unref(tcp_ok) ==
    /\ Idle
    /\ op' = "unref"
    /\ _refcnt' = Int8(_refcnt - 1)
    /\ LET steps == IF _discard_cb THEN TeardownSteps
                    ELSE SelectSeq(TeardownSteps, LAMBDA x : x # "_discard_cb")
           r == IF Int8(_refcnt - 1) = 0
                THEN RunSteps(steps, Ctx, <<>>, tcp_ok)
                ELSE [c |-> Ctx, log |-> <<>>]
       IN /\ _pcb' = r.c.pcb
          /\ _rx_buf' = r.c.buf
          /\ _rx_buf_offset' = r.c.off
          /\ credit' = r.c.credit
          /\ skipped' = r.c.skipped
          /\ pcb_state' = r.c.pcb_state
          /\ pcb_cb' = r.c.pcb_cb
          /\ calls' = r.c.calls
          /\ live' = r.c.live
          /\ teardown' = teardown \o r.log
    /\ UNCHANGED <<wrVars, flagVars, cfgVars, _op_start_time, snd_buf, now, pc, locVars,
                   ret, dst, nArrived, delivered, fin, nDelays, _discard_cb, kaVars, args>>
    /\ ForgetWrite
    /\ UNCHANGED <<ed, cs, tlsVars>>

(* ----------------------------- esp_delay ------------------------------ *)

\* values of millis() at the call: 0, and -1 for the pattern 0xFFFFFFFF, one
\* millisecond before the 32-bit clock wraps
StartClocks == {0, -1}

\* esp_delay(timeout_ms, blocked, intvl_ms): start_ms = millis(); b is what the
\* predicate blocked() returns until something changes it
esp_delay_call(timeout_ms, intvl_ms, b) ==
    /\ Idle
    /\ ed.seen \in {"none", "returned"}
    /\ \E m \in StartClocks :
           ed' = [timeout_ms |-> timeout_ms, intvl_ms |-> intvl_ms, start_ms |-> m,
                  millis |-> m, blocked |-> b, yields |-> 0, seen |-> "test"]
    /\ op' = "esp_delay"
    /\ UNCHANGED <<_pcb, rxVars, wrVars, flagVars, cfgVars, _op_start_time, stkVars,
                   now, pc, locVars, ret, dst, histVars, nDelays, w, refVars, kaVars,
                   args, cs, tlsVars>>

\* the test of a loop written with <= in place of <
esp_delay_test_inclusive ==
    /\ ed.seen = "test"
    /\ ed' = [ed EXCEPT !.seen = IF ~ULess(ed.timeout_ms, ed.millis - ed.start_ms)
                                    /\ ed.blocked
                                 THEN "delay" ELSE "returned"]
    /\ op' = "esp_delay"
    /\ UNCHANGED <<_pcb, rxVars, wrVars, flagVars, cfgVars, _op_start_time, stkVars,
                   now, pc, locVars, ret, dst, histVars, nDelays, w, refVars, kaVars,
                   args, cs, tlsVars>>

\* the test of the while loop: ((uint32_t)millis() - start_ms) < timeout_ms && blocked()
esp_delay_test ==
    /\ ed.seen = "test"
    /\ ed' = [ed EXCEPT !.seen = IF ULess(ed.millis - ed.start_ms, ed.timeout_ms)
                                    /\ ed.blocked
                                 THEN "delay" ELSE "returned"]
    /\ op' = "esp_delay"
    /\ UNCHANGED <<_pcb, rxVars, wrVars, flagVars, cfgVars, _op_start_time, stkVars,
                   now, pc, locVars, ret, dst, histVars, nDelays, w, refVars, kaVars,
                   args, cs, tlsVars>>

\* the body of the loop, delay(intvl_ms): the caller is suspended for intvl_ms
\* milliseconds, and what ran meanwhile leaves the predicate returning b
esp_delay_yield(b) ==
    /\ ed.seen = "delay"
    /\ ed' = [ed EXCEPT !.millis = @ + ed.intvl_ms,
                        !.yields = @ + 1,
                        !.blocked = b,
                        !.seen = "test"]
    /\ op' = "delay"
    /\ UNCHANGED <<_pcb, rxVars, wrVars, flagVars, cfgVars, _op_start_time, stkVars,
                   now, pc, locVars, ret, dst, histVars, nDelays, w, refVars, kaVars,
                   args, cs, tlsVars>>

\* values of millis() from which the clock wraps within one wait: at the
\* next millisecond, at the end of the flush wait, at the end of the timeout
WrapClocks == {0, -1, -WIFICLIENT_MAX_FLUSH_WAIT_MS, -DefaultTimeout}

\* time passes while the application is between two calls: the next call
\* reads millis() = m
millis_passes(m) ==
    /\ Idle
    /\ now # m
    /\ now' = m
    /\ UNCHANGED <<_pcb, rxVars, wrVars, flagVars, cfgVars, _op_start_time, stkVars,
                   pc, locVars, op, ret, dst, histVars, nDelays, w, refVars, kaVars,
                   args, ed, cs, tlsVars>>

(* ------------- WiFiClientSecureCtx: ESP32 compatibility --------------- *)

\* the PEM buffers handed to the calls, and a null const char*
PemBuffers == {"pemA", "pemB", "pemC"}
NullPem == "null"

\* new X509List(pem), new PrivateKey(pem)
X509List(pem) == <<"X509List", pem>>
PrivateKey(pem) == <<"PrivateKey", pem>>

\* void setCACert(const char *rootCA)
setCACert(rootCA) ==
    /\ Idle
    /\ op' = "setCACert"
    /\ args' = <<rootCA>>
    /\ _esp32_ta' = X509List(rootCA)
    /\ UNCHANGED <<_esp32_chain, _esp32_sk>>
    /\ UNCHANGED <<_pcb, rxVars, wrVars, flagVars, cfgVars, _op_start_time, stkVars,
                   now, pc, locVars, ret, dst, histVars, nDelays, refVars, kaVars,
                   ed, cs>>
    /\ ForgetWrite

\* void setCertificate(const char *client_ca)
setCertificate(client_ca) ==
    /\ Idle
    /\ op' = "setCertificate"
    /\ args' = <<client_ca>>
    /\ _esp32_chain' = X509List(client_ca)
    /\ UNCHANGED <<_esp32_ta, _esp32_sk>>
    /\ UNCHANGED <<_pcb, rxVars, wrVars, flagVars, cfgVars, _op_start_time, stkVars,
                   now, pc, locVars, ret, dst, histVars, nDelays, refVars, kaVars,
                   ed, cs>>
    /\ ForgetWrite

\* void setPrivateKey(const char *private_key)
setPrivateKey(private_key) ==
    /\ Idle
    /\ op' = "setPrivateKey"
    /\ args' = <<private_key>>
    /\ _esp32_sk' = PrivateKey(private_key)
    /\ UNCHANGED <<_esp32_ta, _esp32_chain>>
    /\ UNCHANGED <<_pcb, rxVars, wrVars, flagVars, cfgVars, _op_start_time, stkVars,
                   now, pc, locVars, ret, dst, histVars, nDelays, refVars, kaVars,
                   ed, cs>>
    /\ ForgetWrite

\* int connect(IPAddress ip, uint16_t port, const char *rootCABuff,
\*             const char *cli_cert, const char *cli_key), up to its call of
\* connect(ip, port), whose result is what it returns: the three objects are
\* deleted, then rootCABuff goes to setCertificate, then cli_cert and cli_key
\* to setCertificate and setPrivateKey
connect_certs(rootCABuff, cli_cert, cli_key) ==
    /\ Idle
    /\ op' = "connect_certs"
    /\ args' = <<rootCABuff, cli_cert, cli_key>>
    /\ _esp32_ta' = nullptr
    /\ _esp32_chain' = IF cli_cert # NullPem /\ cli_key # NullPem THEN X509List(cli_cert)
                       ELSE IF rootCABuff # NullPem THEN X509List(rootCABuff)
                       ELSE nullptr
    /\ _esp32_sk' = IF cli_cert # NullPem /\ cli_key # NullPem THEN PrivateKey(cli_key)
                    ELSE nullptr
    /\ ret' \in {0, 1}
    /\ UNCHANGED <<_pcb, rxVars, wrVars, flagVars, cfgVars, _op_start_time, stkVars,
                   now, pc, locVars, dst, histVars, nDelays, refVars, kaVars,
                   ed, cs>>
    /\ ForgetWrite

\* the ESP32-compatible calls in any order
NextSecure ==
    \/ \E rootCA \in PemBuffers : setCACert(rootCA)
    \/ \E client_ca \in PemBuffers : setCertificate(client_ca)
    \/ \E private_key \in PemBuffers : setPrivateKey(private_key)
    \/ \E rootCABuff, cli_cert, cli_key \in PemBuffers \cup {NullPem} :
           connect_certs(rootCABuff, cli_cert, cli_key)

(* ----------------------------- LWIPMutex ------------------------------ *)

\* One access of an operation to the pcb: the field read or written or the
\* stack function called on it, its line, and whether an LWIPMutex declared
\* earlier in the enclosing block is in scope there.
Access(what, line, mutex) == [what |-> what, line |-> line, mutex |-> mutex]

\* uint8_t state() const
state_accesses ==
    <<Access("_pcb->state", 362, FALSE), Access("_pcb->state", 362, FALSE),
      Access("_pcb->state", 367, FALSE)>>

\* void keepAlive(idle_sec, intv_sec, count), all three nonzero
keepAlive_accesses ==
    <<Access("_pcb->so_options", 396, FALSE), Access("_pcb->keep_idle", 397, FALSE),
      Access("_pcb->keep_intvl", 398, FALSE), Access("_pcb->keep_cnt", 399, FALSE)>>

\* uint16_t getKeepAliveIdle() const, through isKeepAliveEnabled()
getKeepAliveIdle_accesses ==
    <<Access("_pcb->so_options", 406, FALSE), Access("_pcb->keep_idle", 410, FALSE)>>

\* uint16_t getRemotePort() const
getRemotePort_accesses == <<Access("_pcb->remote_port", 214, FALSE)>>

\* err_t abort(), with a handle
abort_accesses ==
    <<Access("tcp_arg", 66, FALSE), Access("tcp_sent", 67, FALSE),
      Access("tcp_recv", 68, FALSE), Access("tcp_err", 69, FALSE),
      Access("tcp_poll", 70, FALSE), Access("tcp_abort", 72, TRUE)>>

\* err_t close(), with a handle
close_accesses ==
    <<Access("tcp_arg", 82, FALSE), Access("tcp_sent", 83, FALSE),
      Access("tcp_recv", 84, FALSE), Access("tcp_err", 85, FALSE),
      Access("tcp_poll", 86, FALSE), Access("tcp_close", 88, TRUE)>>

\* void _consume(size_t size), with a handle
_consume_accesses == <<Access("tcp_recved", 616, TRUE)>>

\* bool _write_some(): one turn of the loop that writes, and the flush
_write_some_accesses ==
    <<Access("_pcb->state", 512, FALSE), Access("tcp_sndbuf", 520, TRUE),
      Access("tcp_write", 549, FALSE), Access("tcp_output", 575, TRUE)>>

PcbAccesses ==
    [state |-> state_accesses, keepAlive |-> keepAlive_accesses,
     getKeepAliveIdle |-> getKeepAliveIdle_accesses,
     getRemotePort |-> getRemotePort_accesses, abort |-> abort_accesses,
     close |-> close_accesses, _consume |-> _consume_accesses,
     _write_some |-> _write_some_accesses]

\* the application calls an operation: control is in front of its first access
pcb_access_begin(name) ==
    /\ Idle
    /\ _pcb
    /\ cs.name = "none"
    /\ cs' = [name |-> name, at |-> 1, held |-> PcbAccesses[name][1].mutex,
              timer_ran |-> FALSE]
    /\ UNCHANGED <<_pcb, rxVars, wrVars, flagVars, cfgVars, _op_start_time, stkVars,
                   now, pc, locVars, op, ret, dst, histVars, nDelays, w, refVars,
                   kaVars, args, ed, tlsVars>>

\* the operation makes the access it is in front of and moves to the next one,
\* taking or releasing LWIPMutex as its blocks prescribe; after the last one
\* the operation returns
pcb_access_step ==
    /\ cs.name # "none"
    /\ IF cs.at < Len(PcbAccesses[cs.name])
       THEN cs' = [cs EXCEPT !.at = @ + 1,
                             !.held = PcbAccesses[cs.name][cs.at + 1].mutex]
       ELSE cs' = NoAccess
    /\ UNCHANGED <<_pcb, rxVars, wrVars, flagVars, cfgVars, _op_start_time, stkVars,
                   now, pc, locVars, op, ret, dst, histVars, nDelays, w, refVars,
                   kaVars, args, ed, tlsVars>>

\* the periodic timer of the stack runs sys_check_timeouts unless LWIPMutex is
\* held; timer_ran records that it ran between two accesses of one operation
sys_check_timeouts ==
    /\ ~cs.held
    /\ cs' = [cs EXCEPT !.timer_ran = @ \/ (cs.name # "none" /\ cs.at > 1)]
    /\ UNCHANGED <<_pcb, rxVars, wrVars, flagVars, cfgVars, _op_start_time, stkVars,
                   now, pc, locVars, op, ret, dst, histVars, nDelays, w, refVars,
                   kaVars, args, ed, tlsVars>>

(* ------------------------------- Next --------------------------------- *)
\* the receive side: arrivals, peer close and errors against the read family
NextRx ==
    \/ read
    \/ \E size \in 0..MaxRead : readBuf(size)
    \/ peek
    \/ \E size \in 0..MaxRead : peekBytes(size)
    \/ discard_received
    \/ abort
    \/ \E tcp_ok \in BOOLEAN : close(tcp_ok)
    \/ \E len \in 1..MaxSegLen : _recv_data(len)
    \/ _recv_fin
    \/ _error

\* connect() against the callbacks that can run inside its wait
NextConnect ==
    \/ connect
    \/ \E d \in Delays : connect_resume(d)
    \/ connect_tail
    \/ _connected
    \/ \E len \in 1..MaxSegLen : _recv_data(len)
    \/ _recv_fin
    \/ _error
    \/ _poll
    \/ abort

\* write() against the callbacks that can run inside its waits
NextWrite ==
    \/ \E dl \in 0..MaxWrite : write(dl)
    \/ _write_some_entry
    \/ _write_some_loop
    \/ _write_from_source_check
    \/ \E d \in Delays : write_resume(d)
    \/ \E d \in Delays \cup {0} : wait_until_acked_iter(d)
    \/ \E k \in 1..TCP_SND_BUF : _acked(k)
    \/ _poll
    \/ \E len \in 1..MaxSegLen : _recv_data(len)
    \/ _recv_fin
    \/ _error
    \/ abort
    \/ \E sync \in BOOLEAN : setSync(sync)

\* write() while the stack delivers no callback
NextWriteQuiet ==
    \/ \E dl \in 0..MaxWrite : write(dl)
    \/ _write_some_entry
    \/ _write_some_loop
    \/ _write_from_source_check
    \/ \E d \in Delays : write_resume(d)
    \/ \E d \in Delays \cup {0} : wait_until_acked_iter(d)
    \/ \E sync \in BOOLEAN : setSync(sync)

\* write() over larger lengths and windows, the stack delivering no callback
NextSend ==
    \/ \E dl \in 0..MaxSend : write(dl)
    \/ _write_some_entry
    \/ _write_some_loop
    \/ _write_from_source_check
    \/ \E d \in Delays : write_resume(d)
    \/ \E d \in Delays \cup {0} : wait_until_acked_iter(d)

\* the receive side with segments of any length, 0 included, and with
\* peekConsume called on no more than peekAvailable() bytes
NextPeek ==
    \/ \E len \in 0..MaxSegLen :
           /\ len = 0 => Len(delivered) + Len(_rx_buf) < MaxArrive
           /\ _recv_data(len)
    \/ read
    \/ \E consume \in 0..MaxRead :
           /\ consume <= peekAvailable
           /\ peekConsume(consume)
    \/ discard_received

\* the ways to the destruction of the context: holders that take and drop
\* references around connect, abort, close and the callbacks of the stack
NextTeardown ==
    \/ _refcnt < MaxCount /\ ref
    \/ \E tcp_ok \in BOOLEAN : _refcnt > 0 /\ unref(tcp_ok)
    \/ connect
    \/ \E d \in Delays : connect_resume(d)
    \/ connect_tail
    \/ _connected
    \/ \E len \in 1..MaxSegLen : _recv_data(len)
    \/ _recv_fin
    \/ _error
    \/ _poll
    \/ abort
    \/ \E tcp_ok \in BOOLEAN : close(tcp_ok)

\* the waits of connect and write started at any value of the clock
NextWrap ==
    \/ \E m \in WrapClocks : millis_passes(m)
    \/ connect
    \/ \E d \in Delays : connect_resume(d)
    \/ connect_tail
    \/ _connected
    \/ NextWriteQuiet

\* the holders of the context: ref / unref against reads, arrivals and errors
NextLife ==
    \/ ref
    \/ \E tcp_ok \in BOOLEAN : unref(tcp_ok)
    \/ read
    \/ \E len \in 1..MaxSegLen : _recv_data(len)
    \/ _error

\* the configuration calls
(* ------------------- queries and options of the pcb ------------------- *)

\* remote_ip, remote_port, local_ip and local_port of the pcb
pcb_addr == [remote_ip |-> 1, remote_port |-> 2, local_ip |-> 3, local_port |-> 4]

\* the queries that test _pcb before they use it
NullTested == {"availableForWrite", "getNoDelay", "getRemoteAddress", "getRemotePort",
               "getLocalAddress", "getLocalPort", "state"}

\* the queries that dereference _pcb at once
NullUntested == {"isKeepAliveEnabled", "getKeepAliveIdle", "getKeepAliveInterval",
                 "getKeepAliveCount"}

\* what a query returns when _pcb is non-null
QueryValue(q) ==
    CASE q = "availableForWrite"    -> snd_buf
      [] q = "getNoDelay"           -> nodelay
      [] q = "getRemoteAddress"     -> pcb_addr.remote_ip
      [] q = "getRemotePort"        -> pcb_addr.remote_port
      [] q = "getLocalAddress"      -> pcb_addr.local_ip
      [] q = "getLocalPort"         -> pcb_addr.local_port
      [] q = "state"                -> state
      [] q = "isKeepAliveEnabled"   -> isKeepAliveEnabled
      [] q = "getKeepAliveIdle"     -> getKeepAliveIdle
      [] q = "getKeepAliveInterval" -> getKeepAliveInterval
      [] q = "getKeepAliveCount"    -> getKeepAliveCount

\* what the branch for a null _pcb returns
NullValue(q) ==
    CASE q = "getNoDelay" -> FALSE
      [] q = "state"      -> "CLOSED"
      [] OTHER            -> 0

\* a dereference of the null _pcb: the access faults, or it reads whatever is
\* at that address, zero or not
NullHandleOutcomes == {"fault", "zero", "stray"}

\* what a read through the null _pcb yields when the word is not zero
StrayValue(q) ==
    CASE q = "isKeepAliveEnabled" -> TRUE
      [] q = "getKeepAliveCount"  -> Garbage % (UINT8_MAX + 1)
      [] OTHER                    -> Garbage % (UINT16_MAX + 1)

\* a call of one of the const queries
query(q) ==
    /\ Idle
    /\ op' = q
    /\ args' = <<>>
    /\ IF _pcb
       THEN ret' = QueryValue(q) /\ UNCHANGED pc
       ELSE IF q \in NullTested
       THEN ret' = NullValue(q) /\ UNCHANGED pc
       ELSE \E o \in NullHandleOutcomes :
            /\ pc' = IF o = "fault" THEN "fault" ELSE pc
            /\ ret' = CASE o = "fault" -> ret
                         [] o = "zero"  -> IF q = "isKeepAliveEnabled" THEN FALSE ELSE 0
                         [] o = "stray" -> StrayValue(q)
    /\ UNCHANGED <<_pcb, rxVars, wrVars, flagVars, cfgVars, _op_start_time, stkVars,
                   now, locVars, dst, histVars, nDelays, refVars, kaVars>>
    /\ ForgetWrite
    /\ UNCHANGED <<ed, cs, tlsVars>>

\* void setNoDelay(bool nodelay)
setNoDelay(b) ==
    /\ Idle
    /\ op' = "setNoDelay"
    /\ args' = <<b>>
    /\ nodelay' = IF _pcb THEN b ELSE nodelay
    /\ UNCHANGED <<_pcb, rxVars, wrVars, flagVars, cfgVars, _op_start_time, stkVars,
                   now, pc, locVars, ret, dst, histVars, nDelays, refVars,
                   so_keepalive, keep_idle, keep_intvl, keep_cnt>>
    /\ ForgetWrite
    /\ UNCHANGED <<ed, cs, tlsVars>>

\* bool wait_until_acked(int max_wait_ms) called with a null _pcb
wait_until_acked_noHandle ==
    /\ Idle
    /\ ~_pcb
    /\ op' = "wait_until_acked"
    /\ args' = <<WIFICLIENT_MAX_FLUSH_WAIT_MS>>
    /\ ret' = TRUE
    /\ UNCHANGED <<_pcb, rxVars, wrVars, flagVars, cfgVars, _op_start_time, stkVars,
                   now, pc, locVars, dst, histVars, nDelays, refVars, kaVars>>
    /\ ForgetWrite
    /\ UNCHANGED <<ed, cs, tlsVars>>

\* keepAlive(idle_sec, intv_sec, count) called with a null _pcb: the stores to
\* _pcb->so_options and the keep_* fields go through the null pointer
keepAlive_noHandle(idle_sec, intv_sec, count) ==
    /\ Idle
    /\ ~_pcb
    /\ op' = "keepAlive"
    /\ args' = <<idle_sec, intv_sec, count>>
    /\ \E o \in NullHandleOutcomes \ {"zero"} :
           pc' = IF o = "fault" THEN "fault" ELSE pc
    /\ UNCHANGED <<_pcb, rxVars, wrVars, flagVars, cfgVars, _op_start_time, stkVars,
                   now, locVars, ret, dst, histVars, nDelays, refVars, kaVars>>
    /\ ForgetWrite
    /\ UNCHANGED <<ed, cs, tlsVars>>

\* the queries and options against everything that nulls the handle
NextQuery ==
    \/ \E q \in NullTested \cup NullUntested : query(q)
    \/ \E b \in BOOLEAN : setNoDelay(b)
    \/ wait_until_acked_noHandle
    \/ \E idle_sec \in {0, 1}, count \in {0, 1} : keepAlive(idle_sec, 1, count)
    \/ \E idle_sec \in {0, 1}, count \in {0, 1} : keepAlive_noHandle(idle_sec, 1, count)
    \/ abort
    \/ \E tcp_ok \in BOOLEAN : close(tcp_ok)
    \/ _error

NextConfig ==
    \/ \E t \in TimeoutArgs : setTimeout(t)
    \/ \E idle_sec, intv_sec \in KeepAliveSecs, count \in KeepAliveCounts :
           keepAlive(idle_sec, intv_sec, count)
    \/ abort

\* esp_delay taken by itself, over its arguments
NextDelay ==
    \/ \E timeout_ms \in 0..MaxTimeoutMs, intvl_ms \in 1..MaxIntvlMs, b \in BOOLEAN :
           esp_delay_call(timeout_ms, intvl_ms, b)
    \/ esp_delay_test
    \/ \E b \in BOOLEAN : esp_delay_yield(b)

\* the operations on the pcb against the periodic timer of the stack
NextMutex ==
    \/ \E name \in DOMAIN PcbAccesses : pcb_access_begin(name)
    \/ pcb_access_step
    \/ sys_check_timeouts

Next ==
    \/ NextRx \/ NextConnect \/ NextWrite \/ NextLife \/ NextConfig \/ NextDelay
    \/ NextMutex \/ NextSend \/ NextPeek \/ NextTeardown \/ NextQuery \/ NextWrap \/ NextSecure

Spec == Init /\ [][Next]_vars

SpecRx == Init /\ [][NextRx]_vars

SpecConnect == Init /\ [][NextConnect]_vars

SpecWrite == Init /\ [][NextWrite]_vars

SpecWriteQuiet == Init /\ [][NextWriteQuiet]_vars

SpecLife == Init /\ [][NextLife]_vars

SpecConfig == Init /\ [][NextConfig]_vars

SpecQuery == Init /\ [][NextQuery]_vars

SpecWrap == Init /\ [][NextWrap]_vars

SpecSecure == Init /\ [][NextSecure]_vars

SpecDelay == Init /\ [][NextDelay]_vars

SpecMutex == Init /\ [][NextMutex]_vars

SpecSend == InitSend /\ [][NextSend]_vars

SpecPeek == Init /\ [][NextPeek]_vars

SpecTeardown == Init /\ [][NextTeardown]_vars

(* ------------------------------- claims ------------------------------- *)
\* the bytes the peer has sent so far, in order
Arrived == [i \in 1..nArrived |-> i]

\* C1: as long as nothing was discarded, the bytes returned by read() and read(dst, n)
\* followed by the unread bytes of the chain are exactly the bytes that arrived, in
\* arrival order, and getSize() is the number of arrived bytes not yet returned (so it
\* is |P| before any read); arrivals may interleave with the reads.
C1_StreamIntact ==
    skipped = 0 =>
        /\ delivered \o Unread(_rx_buf, _rx_buf_offset) = Arrived
        /\ getSize = nArrived - Len(delivered)

\* C1 witness: read(dst, 2) has just returned bytes 1 and 2 from two different pbufs
C1_Witness ==
    /\ op = "readBuf"
    /\ dst = <<1, 2>>
    /\ _rx_buf = <<<<2, 3>>>>
    /\ _rx_buf_offset = 1
    /\ skipped = 0

\* C2: a step of peek() or peekBytes() leaves the chain, the offset, getSize() and the
\* receive credit unchanged, and a read() that directly follows a peek() on a
\* non-empty chain returns the byte peek() returned.
C2_PeekPure ==
    [][ /\ (op' \in {"peek", "peekBytes"}) =>
             /\ UNCHANGED <<_rx_buf, _rx_buf_offset, credit>>
             /\ getSize' = getSize
        /\ (op = "peek" /\ _rx_buf # <<>> /\ op' = "read") => ret' = ret
      ]_vars

\* C2 witness: peek() has returned the second byte of a head consumed up to offset 1
C2_Witness ==
    /\ op = "peek"
    /\ ret = 2
    /\ _rx_buf_offset = 1
    /\ Len(_rx_buf) = 2

\* C3: right after discard_received() getSize() is 0 and the chain head and the offset
\* are reset, whatever was buffered and whether or not the handle is present.
C3_DiscardEmpties ==
    op = "discard_received" =>
        /\ getSize = 0
        /\ _rx_buf = <<>>
        /\ _rx_buf_offset = 0

\* C3 witness: on a null handle, one byte was read and discard_received() then dropped
\* the two unread bytes (a head consumed up to offset 1, or a second pbuf)
C3_Witness ==
    /\ op = "discard_received"
    /\ ~_pcb
    /\ skipped = 2
    /\ delivered = <<1>>

C4_FlushExactlyOnce ==
    (op = "write" /\ w.pre /\ w.len >= 1 /\ ~w.mem) =>
        /\ ret = w.len
        /\ w.flush_ws + w.flush_wua = 1

\* C4 as amended: such a write returns N and the send loop calls tcp_output
\* exactly once; with the synchronous flag off that is the only tcp_output of
\* the call, with it on wait_until_acked calls tcp_output at least once more
C4_FlushOnceBySendLoop ==
    (op = "write" /\ w.pre /\ w.len >= 1 /\ ~w.mem) =>
        /\ ret = w.len
        /\ w.flush_ws = 1
        /\ ~w.sync => w.flush_wua = 0
        /\ w.sync => w.flush_wua >= 1

C4_Witness ==
    /\ op = "write" /\ w.pre /\ ~w.mem /\ w.len = 2 /\ ret = 2
    /\ w.sync /\ w.flush_ws = 1 /\ w.flush_wua = 2

(* ------------------------------ C6 ------------------------------------ *)
\* C6: when the wait of connect() ends by timeout (neither _connected nor
\* _error cleared the pending flag), connect() returns 0, the handle was
\* aborted with tcp_abort and is null, every callback is detached and the
\* connect-pending flag is false
C6_ConnectTimeoutAborts ==
    [][(pc = "connect_tail" /\ _connect_pending /\ pc' = "idle") =>
        /\ op' = "connect" /\ ret' = 0
        /\ ~_pcb'
        /\ pcb_state' = "FREED"
        /\ calls'.tcp_abort = calls.tcp_abort + 1
        /\ pcb_cb' = NoCallbacks
        /\ ~_connect_pending']_vars

C6_Witness ==
    /\ op = "connect" /\ ret = 0 /\ w.ctail = "ctmo" /\ w.cpend
    /\ ~_pcb /\ pcb_cb = NoCallbacks /\ calls.tcp_abort = 1

(* ------------------------------ C7 ------------------------------------ *)
\* C7: connect() returns 1 only with a non-null handle in state ESTABLISHED;
\* when the wait ends with a handle that is present but not established, also
\* after _connected fired and the state changed again, connect() aborts the
\* handle and returns 0
C7_SuccessOnlyIfEstablished ==
    /\ [](op = "connect" /\ ret = 1 => _pcb /\ pcb_state = "ESTABLISHED")
    /\ [][(pc = "connect_tail" /\ _pcb /\ pcb_state # "ESTABLISHED" /\ pc' = "idle") =>
            /\ op' = "connect" /\ ret' = 0
            /\ ~_pcb'
            /\ calls'.tcp_abort = calls.tcp_abort + 1]_vars

C7_Witness ==
    /\ op = "connect" /\ ret = 0 /\ w.ctail = "ctmo" /\ ~w.cpend
    /\ ~_pcb /\ _rx_buf # <<>> /\ calls.tcp_abort = 1

(* ------------------------------ C8 ------------------------------------ *)
\* C8: when _error or the peer's close ends the connection during a write of
\* N bytes of which fewer than N were accepted, the write returns less than N,
\* hands no chunk to the stack after the closure, and the write cursor is
\* armed again only by a new call of write
C8_ClosedMidWrite ==
    /\ [](~w.late_chunk)
    /\ []((op = "write" /\ w.closed /\ w.at_close < w.len) =>
            /\ ret < w.len
            /\ ret = w.at_close
            /\ ~_datasource /\ _datalen = 0)
    /\ [][(~_datasource /\ _datasource') => op' = "write_call"]_vars

C8_Witness ==
    /\ op = "write" /\ w.closed /\ w.len = 2 /\ w.at_close = 1 /\ ret = 1
    /\ _pcb /\ pcb_state = "CLOSE_WAIT"

(* ------------------------------ C9 ------------------------------------ *)
\* C9: write on a context with a null handle returns 0 at once: it does not
\* wait, does not call the stack, and leaves the write cursor, the wait flags,
\* the operation start time and the receive chain unchanged
C9_WriteNullHandle ==
    [][(Idle /\ ~_pcb /\ op' \in {"write", "write_call"}) =>
        /\ op' = "write" /\ ret' = 0
        /\ pc' = "idle"
        /\ UNCHANGED <<wrVars, flagVars, _op_start_time, rxVars, stkVars, now>>]_vars

C9_Witness ==
    /\ op = "write" /\ ret = 0 /\ ~_pcb /\ w = NoWrite
    /\ _rx_buf # <<>> /\ snd_buf < TCP_SND_BUF

(* ------------------------------ C10 ----------------------------------- *)
\* C10: in synchronous mode, when write returns on a connection that is still
\* established, every byte handed to the stack has been acknowledged: the send
\* buffer is back to its full size
C10_SyncWriteAcked ==
    (op = "write" /\ w.sync /\ w.len >= 1 /\ _pcb /\ pcb_state = "ESTABLISHED") =>
        snd_buf = TCP_SND_BUF


(* ------------------------------ C11 ----------------------------------- *)
\* C11: a write that makes no progress and receives no callback has returned
\* no later than the timeout plus one wait interval (1 ms) after its last
\* progress or its start: while it is still inside the send loop, no more
\* than that has passed since _op_start_time
C11_WriteBlocksAtMostTimeout ==
    pc \in {"ws_entry", "ws_loop", "wfs_check", "write_wait"} =>
        now - _op_start_time <= _timeout_ms + 1

(* ------------------------------ C12 ----------------------------------- *)
\* C12: read(), read(buf, n), peek() and peekBytes(buf, n) never wait or
\* yield; on an empty receive chain each returns 0, leaves every field of the
\* context unchanged and makes no call to the stack
C12_EmptyReadsDoNothing ==
    [][(op' \in {"read", "readBuf", "peek", "peekBytes"}) =>
        /\ pc = "idle" /\ pc' = "idle" /\ now' = now /\ nDelays' = nDelays
        /\ _rx_buf = <<>> =>
             /\ ret' = 0
             /\ UNCHANGED <<_pcb, rxVars, wrVars, flagVars, cfgVars, _op_start_time,
                            refVars>>
             /\ UNCHANGED <<stkVars, kaVars, credit>>]_vars

C12_Witness ==
    /\ op = "read" /\ ret = 0 /\ _rx_buf = <<>>
    /\ nArrived = 1 /\ delivered = <<1>> /\ credit = 1 /\ _pcb

(* ------------------------------ C13 ----------------------------------- *)
\* C13: close() on a context with a handle detaches all callbacks and calls
\* tcp_close; if the stack accepts, close() returns ERR_OK without tcp_abort,
\* if it refuses, close() calls tcp_abort and returns ERR_ABRT; either way the
\* handle is null afterwards; without a handle close() returns ERR_OK and
\* does nothing
C13_CloseGracefulOrAbort ==
    [][op' = "close" =>
        /\ ~_pcb'
        /\ UNCHANGED <<rxVars, wrVars, flagVars, cfgVars, refVars>>
        /\ IF _pcb
           THEN /\ pcb_cb' = NoCallbacks
                /\ calls'.tcp_close = calls.tcp_close + 1
                /\ \/ ret' = ERR_OK /\ calls'.tcp_abort = calls.tcp_abort
                   \/ ret' = ERR_ABRT /\ calls'.tcp_abort = calls.tcp_abort + 1
           ELSE /\ ret' = ERR_OK
                /\ UNCHANGED stkVars]_vars

C13_Witness ==
    /\ op = "close" /\ ret = ERR_ABRT /\ ~_pcb /\ pcb_cb = NoCallbacks
    /\ calls = [tcp_abort |-> 1, tcp_close |-> 1] /\ _rx_buf # <<>>

(* ------------------------------ C14 ----------------------------------- *)
\* C14: abort() detaches every callback binding of the handle and calls
\* tcp_abort, leaving the handle null; tcp_abort runs at most once per handle:
\* abort() on a context without handle (after abort, close or _error) makes
\* no call to the stack; abort() always returns ERR_ABRT
C14_AbortOnceAndNull ==
    /\ [](calls.tcp_abort <= 1)
    /\ [][op' = "abort" =>
            /\ ret' = ERR_ABRT
            /\ ~_pcb'
            /\ IF _pcb
               THEN /\ pcb_cb' = NoCallbacks
                    /\ calls' = [calls EXCEPT !.tcp_abort = @ + 1]
               ELSE UNCHANGED stkVars]_vars

C14_Witness ==
    /\ op = "abort" /\ ret = ERR_ABRT /\ ~_pcb /\ pcb_cb = NoCallbacks
    /\ calls = [tcp_abort |-> 0, tcp_close |-> 1]

(* ------------------------------ C15 ----------------------------------- *)
\* C15: for any sequence of ref() and unref() calls on a live context, also
\* unref() on a freshly constructed one, the reference count stays >= 0 and
\* the context is released exactly once
C15_RefCountNeverNegative ==
    /\ _refcnt >= 0
    /\ Len(SelectSeq(teardown, LAMBDA e : e.step = "delete")) <= 1
    /\ live <=> teardown = <<>>

(* ------------------------------ C16 ----------------------------------- *)
\* C16: the unref() that brings the count to zero discards the unread data
\* (crediting the stack only while the handle exists), closes the transport,
\* invokes the discard callback once if one is set, and releases the context,
\* in this order; when the callback runs the handle is null and the receive
\* chain is empty
C16_TeardownOrder ==
    [][(op' = "unref" /\ _refcnt' = 0) =>
        LET names == [i \in 1..Len(teardown') |-> teardown'[i].step]
            cbs   == SelectSeq(teardown', LAMBDA e : e.step = "_discard_cb")
        IN /\ teardown = <<>>
           /\ names = IF _discard_cb
                      THEN <<"discard_received", "close", "_discard_cb", "delete">>
                      ELSE <<"discard_received", "close", "delete">>
           /\ teardown'[1].pcb = _pcb /\ teardown'[1].buf = _rx_buf
           /\ credit' # credit <=> (_pcb /\ _rx_buf # <<>>)
           /\ teardown'[2].buf = <<>>
           /\ calls'.tcp_close = calls.tcp_close + (IF _pcb THEN 1 ELSE 0)
           /\ Len(cbs) = IF _discard_cb THEN 1 ELSE 0
           /\ \A i \in 1..Len(cbs) : ~cbs[i].pcb /\ cbs[i].buf = <<>>
           /\ ~live' /\ ~_pcb' /\ _rx_buf' = <<>> /\ _rx_buf_offset' = 0]_vars

C16_Witness ==
    /\ op = "unref" /\ _refcnt = 0 /\ ~live /\ _discard_cb
    /\ Len(teardown) = 4 /\ teardown[1].pcb /\ teardown[1].buf # <<>>
    /\ teardown[3].step = "_discard_cb" /\ ~teardown[3].pcb
    /\ skipped = 2 /\ credit = 2 /\ calls.tcp_close = 1

(* ------------------------------ C17 ----------------------------------- *)
\* C17: an unref() that leaves the count above zero changes only the count:
\* handle, callback bindings, receive chain, write cursor, timeout and flags
\* stay as they are, the discard callback is not invoked, and the context
\* stays usable by the remaining holders
C17_UnrefKeepsContext ==
    [][(op' = "unref" /\ _refcnt' > 0) =>
        /\ UNCHANGED <<_pcb, rxVars, wrVars, flagVars, cfgVars, _op_start_time,
                       stkVars, kaVars, _discard_cb, teardown, credit, skipped>>
        /\ live' /\ pc' = "idle"]_vars

C17_Witness ==
    /\ op = "unref" /\ _refcnt = 1 /\ live /\ teardown = <<>>
    /\ _pcb /\ pcb_cb = AllCallbacks /\ _rx_buf # <<>> /\ _rx_buf_offset = 1

(* ------------------------------ C18 ----------------------------------- *)
\* C18: keepAlive(idle, interval, count) with idle and interval in 1..65535
\* and count in 1..255 enables keep-alive, and afterwards the three getters
\* return exactly idle, interval and count
C18_KeepAliveRoundTrip ==
    (op = "keepAlive" /\ args[1] # 0 /\ args[2] # 0 /\ args[3] # 0) =>
        /\ isKeepAliveEnabled
        /\ getKeepAliveIdle = args[1]
        /\ getKeepAliveInterval = args[2]
        /\ getKeepAliveCount = args[3]

C18_Witness ==
    /\ op = "keepAlive" /\ args = <<UINT16_MAX, 66, UINT8_MAX>>
    /\ keep_idle = 1000 * UINT16_MAX /\ getKeepAliveIdle = UINT16_MAX
    /\ getKeepAliveInterval = 66 /\ getKeepAliveCount = UINT8_MAX

(* ------------------------------ C19 ----------------------------------- *)
\* C19: keepAlive(idle, interval, count) with one of the three equal to zero
\* disables keep-alive whatever was configured before; afterwards
\* isKeepAliveEnabled() is false and the three getters return 0
C19_KeepAliveZeroDisables ==
    (op = "keepAlive" /\ (args[1] = 0 \/ args[2] = 0 \/ args[3] = 0)) =>
        /\ ~isKeepAliveEnabled
        /\ getKeepAliveIdle = 0
        /\ getKeepAliveInterval = 0
        /\ getKeepAliveCount = 0

C19_Witness ==
    /\ op = "keepAlive" /\ args = <<66, 0, 1>> /\ ~so_keepalive
    /\ keep_idle = 1000 * UINT16_MAX /\ keep_intvl = 1000 /\ keep_cnt = UINT8_MAX

(* ------------------------------ C20 ----------------------------------- *)
\* C20: for every integer t, after setTimeout(t) getTimeout() returns t if
\* t >= 100 and t * 1000 if t < 100 (0 and negative values included), and
\* that value is the timeout in ms the waits of connect and write use: a wait
\* that has lasted e ms goes on iff e is below it
C20_TimeoutSecondsBelow100 ==
    op = "setTimeout" =>
        LET t == args[1] IN
        IF t >= 100
        THEN /\ getTimeout = t
             /\ \A e \in {0, 1} : esp_delay_blocked(start_ms + e, TRUE) <=> (e < t)
        ELSE /\ getTimeout % 1000 = 0
             /\ getTimeout \div 1000 = t
             /\ \A e \in {0, 1} :
                    esp_delay_blocked(start_ms + e, TRUE) <=> (e \div 1000 < t)

(* ------------------------------ C21 ----------------------------------- *)

\* milliseconds since esp_delay read start_ms, in the frame f
Elapsed(f) == f.millis - f.start_ms

\* C21: esp_delay(timeout, blocked, interval) yields only from a test that saw
\* the predicate true and less than timeout elapsed; a test that sees the
\* predicate false or the timeout reached returns; the time spent never exceeds
\* timeout plus one interval; with timeout 0 it returns without a yield.
C21_EspDelayBounded ==
    [][/\ (ed.seen = "test" /\ ed'.seen = "delay")
             => ed.blocked /\ Elapsed(ed) < ed.timeout_ms
       /\ (ed.seen = "test" /\ ed' # ed /\ (~ed.blocked \/ Elapsed(ed) >= ed.timeout_ms))
             => ed'.seen = "returned" /\ ed'.yields = ed.yields
                /\ Elapsed(ed') = Elapsed(ed)
       /\ ed'.seen # "none" => Elapsed(ed') <= ed'.timeout_ms + ed'.intvl_ms
       /\ (ed'.seen = "returned" /\ ed'.timeout_ms = 0) => ed'.yields = 0]_vars

\* a wait that started one millisecond before the clock wrapped, yielded twice
\* with the predicate still true and returned on the timeout, one millisecond
\* short of timeout plus interval
C21_Witness ==
    /\ ed.seen = "returned"
    /\ ed.start_ms = -1
    /\ ed.blocked
    /\ ed.yields = 2
    /\ Elapsed(ed) = ed.timeout_ms + ed.intvl_ms - 1

(* ------------------------------ C22 ----------------------------------- *)

\* C22: with a handle, discard_received() credits the stack with exactly the
\* unread bytes it drops, and the bytes credited so far never exceed the bytes
\* that arrived.
C22_DiscardCreditsUnread ==
    [][/\ (op' = "discard_received" /\ _pcb) => credit' = credit + getSize
       /\ credit' <= nArrived']_vars

(* ------------------------------ C23 ----------------------------------- *)

\* C23: every access of an operation to the pcb is made while LWIPMutex is
\* held, and sys_check_timeouts never runs between two accesses of one
\* operation.
C23_PcbAccessUnderMutex == (cs.name # "none" => cs.held) /\ ~cs.timer_ran

(* ------------------------------ C24 ----------------------------------- *)

\* C24: when _recv is called with a null payload and no unread data is
\* buffered, the context aborts at once: tcp_abort is called once, every
\* callback is detached, the handle is null, the callback returns ERR_ABRT and
\* both wait flags are clear; a write that was waiting then leaves its wait.
C24_PeerCloseNoDataAborts ==
    [][/\ (op' = "_recv_fin" /\ getSize = 0)
             => /\ ~_pcb'
                /\ pcb_cb' = NoCallbacks
                /\ calls' = [calls EXCEPT !.tcp_abort = @ + 1]
                /\ ret' = ERR_ABRT
                /\ ~_send_waiting' /\ ~_connect_pending'
       /\ (op = "_recv_fin" /\ ret = ERR_ABRT /\ pc = "write_wait" /\ pc' # pc)
             => pc' = "ws_entry"]_vars

\* the peer closed, nothing unread, while a write was waiting for the window
C24_Witness ==
    /\ op = "_recv_fin"
    /\ ret = ERR_ABRT
    /\ pc = "write_wait"
    /\ getSize = 0
    /\ ~_pcb /\ ~_send_waiting
    /\ _written < _datalen

(* ------------------------------ C25 ----------------------------------- *)

\* C25: when _recv is called with a null payload while unread data remains, it
\* returns ERR_OK and keeps the handle; once the unread bytes that were
\* buffered then have all been consumed, the handle has been released.
C25_TeardownOnceDrained ==
    /\ (op = "_recv_fin" /\ fin.M > 0) => (ret = ERR_OK /\ _pcb)
    /\ (fin.seen /\ fin.M > 0 /\ getSize = 0) => ~_pcb

(* ------------------------------ C26 ----------------------------------- *)

\* C26: whenever _error runs (idle, inside the wait of a connect, inside the
\* wait of a write) it detaches every callback binding of the context (arg,
\* recv, sent, err and poll), nulls the handle without a call of tcp_close or
\* tcp_abort, and clears _connect_pending and _send_waiting, so that a connect
\* in flight returns 0 and a write in flight returns the bytes written so far.
C26_ErrorDetachesAll ==
    [][/\ op' = "_error"
             => /\ pcb_cb' = NoCallbacks
                /\ ~_pcb'
                /\ calls' = calls
                /\ ~_connect_pending' /\ ~_send_waiting'
                /\ UNCHANGED <<pc, wrVars>>
       /\ (op' = "connect" /\ pc = "connect_tail" /\ ~_pcb) => ret' = 0
       /\ (op' = "write" /\ pc = "wfs_check" /\ ~_pcb) => ret' = _written]_vars

(* ------------------------------ C27 ----------------------------------- *)

\* C27: _acked and _poll return ERR_OK and leave _send_waiting false; they
\* change neither the handle, the rx chain, the write in progress (_written
\* included), _connect_pending, the timeout nor the position of the caller, and
\* with _send_waiting already false they change no field of the context at all.
\* A write whose wait they ended goes on to a new pass of _write_some.
C27_AckedPollOnlyWake ==
    [][/\ op' \in {"_acked", "_poll"}
             => /\ ret' = ERR_OK
                /\ ~_send_waiting'
                /\ UNCHANGED <<_pcb, rxVars, wrVars, _connect_pending, cfgVars,
                               _op_start_time, pcb_state, pcb_cb, calls, pc, refVars>>
                /\ ~_send_waiting => UNCHANGED flagVars
       /\ (op \in {"_acked", "_poll"} /\ pc = "write_wait" /\ pc' # pc)
             => pc' = "ws_entry"]_vars

\* _acked has ended the wait of a write that still has bytes to send
C27_Witness ==
    /\ op = "_acked"
    /\ pc = "write_wait"
    /\ ~_send_waiting
    /\ _pcb
    /\ 0 < _written /\ _written < _datalen

(* ------------------------------ C28 ----------------------------------- *)

\* the turn of the send loop that is about to hand a chunk to tcp_write
AttemptsWrite ==
    /\ pc = "ws_loop"
    /\ _written < _datalen
    /\ state # "CLOSED"
    /\ next_chunk_size # 0

\* C28: in a send pass the first attempted chunk is min(window, remaining);
\* after an ERR_MEM the next attempted chunk is half the previous one, never
\* zero and never larger than the previous one; the scale never exceeds 4, and
\* an ERR_MEM at scale 4 ends the pass with _written unchanged.
C28_ChunkHalvedOnErrMem ==
    [][AttemptsWrite
          => /\ scale = 0 => next_chunk_size = Min(snd_buf, _datalen - _written)
             /\ (pc' = "ws_loop" /\ scale' = scale + 1)
                   => /\ next_chunk_size' >= 1
                      /\ next_chunk_size' <= next_chunk_size
                      /\ next_chunk_size >= 2
                            => next_chunk_size' = next_chunk_size \div 2
                      /\ _written' = _written
             /\ scale' <= MaxScale
             /\ (scale = MaxScale /\ _written' = _written /\ pc' = "ws_loop")
                   => UNCHANGED vars]_vars

(* ------------------------------ C29 ----------------------------------- *)

\* C29: every chunk handed to tcp_write carries TCP_WRITE_FLAG_MORE exactly
\* when it is smaller than the bytes of the call still unsent, that is, when
\* it does not carry the last byte of the call.
C29_MoreFlagUnlessLastChunk ==
    [][AttemptsWrite
          => /\ w'.chunk = next_chunk_size
             /\ w'.flags.more <=> (next_chunk_size < _datalen - _written)
             /\ w'.flags.more <=> (_written + next_chunk_size # _datalen)]_vars

\* a write split by ERR_MEM: an earlier chunk was flagged, and the chunk that
\* was just accepted, smaller than the call, carried its last byte unflagged
C29_Witness ==
    /\ pc = "ws_loop"
    /\ w.mem
    /\ has_written
    /\ _written = _datalen
    /\ 0 < w.chunk /\ w.chunk < _datalen
    /\ ~w.flags.more

(* ------------------------------ C30 ----------------------------------- *)

\* C30: whenever a write can be entered, and so whenever a write has returned
\* (complete, timed out or closed), _datasource is null, _datalen is 0 and
\* _send_waiting is false, so the two assertions at the head of
\* _write_from_source hold for every write that is entered.
C30_OneWriteInFlight ==
    Idle => (~_datasource /\ _datalen = 0 /\ ~_send_waiting)

\* a write has returned on its timeout, part of the data unsent
C30_Witness ==
    /\ Idle
    /\ op = "write"
    /\ w.len > 0 /\ ret < w.len
    /\ ~w.closed
    /\ _pcb
    /\ nDelays = 0 /\ ~_datasource /\ ~_send_waiting

(* ------------------------------ C31 ----------------------------------- *)

\* C31: after any arrivals (segments of length 0 included), reads, peekConsume
\* and discard_received calls, _rx_buf is non-null exactly when getSize() > 0,
\* _rx_buf_offset is below the length of the head segment, and it is 0 when
\* the chain is empty.
C31_ChainIffUnread ==
    /\ (_rx_buf # <<>>) <=> (getSize > 0)
    /\ _rx_buf # <<>> => _rx_buf_offset < Len(Head(_rx_buf))
    /\ _rx_buf = <<>> => _rx_buf_offset = 0

(* ------------------------------ C32 ----------------------------------- *)

\* C32: peekAvailable() is the number of unread bytes of the head segment, 0
\* for an empty chain; peekConsume(n) with 0 <= n <= peekAvailable() returns
\* with getSize() reduced by n, n bytes credited to the stack of a context
\* that has a handle, and the unread bytes being those behind the n consumed.
C32_PeekConsumeExact ==
    [][op' = "peekConsume"
          => LET n == args'[1] IN
             /\ args'[2] = Len(peekBuffer)
             /\ n <= args'[2]
                   => /\ pc' = "idle"
                      /\ getSize' = getSize - n
                      /\ _pcb => credit' = credit + n
                      /\ Unread(_rx_buf', _rx_buf_offset')
                            = SubSeq(Unread(_rx_buf, _rx_buf_offset), n + 1, getSize)]_vars

(* ------------------------------ C34 ----------------------------------- *)

\* C34: abort(), close() and _error leave _rx_buf and _rx_buf_offset as they
\* are; with the handle null, read and read(dst, size) go on returning the
\* buffered bytes in their order of arrival, and neither they nor
\* discard_received credit the stack.
C34_TeardownKeepsData ==
    [][/\ op' \in {"abort", "close", "_error"} => UNCHANGED rxVars
       /\ (~_pcb /\ op' \in {"read", "readBuf", "discard_received"})
             => credit' = credit
       /\ (~_pcb /\ op' = "read" /\ _rx_buf # <<>>)
             => /\ ret' = Head(Unread(_rx_buf, _rx_buf_offset))
                /\ Unread(_rx_buf', _rx_buf_offset')
                      = Tail(Unread(_rx_buf, _rx_buf_offset))
       /\ (~_pcb /\ op' = "readBuf")
             => Unread(_rx_buf, _rx_buf_offset)
                   = dst' \o Unread(_rx_buf', _rx_buf_offset')]_vars

\* after abort() with three bytes buffered, two were read without any credit
\* and the third is still there
C34_Witness ==
    /\ op = "read"
    /\ ~_pcb
    /\ calls.tcp_abort = 1
    /\ delivered = <<1, 2>>
    /\ ret = 2
    /\ credit = 0
    /\ Unread(_rx_buf, _rx_buf_offset) = <<3>>

(* ------------------------------ C35 ----------------------------------- *)

\* what read(dst, n) would copy in this state
ReadBytesValue(n) ==
    IF _rx_buf = <<>> THEN <<>>
    ELSE ReadLoop(_rx_buf, _rx_buf_offset,
                  Min(n, tot_len(_rx_buf) - _rx_buf_offset), <<>>, 0).out

\* C35: on a non-empty chain peekBytes(dst, n) copies min(n, unread bytes of
\* the head segment) bytes, never a byte of a later segment, and they are the
\* first bytes that read(dst, n) would return.
C35_PeekBytesHeadOnly ==
    \A n \in 0..MaxRead :
        _rx_buf # <<>>
           => LET p == peekBytesValue(n) IN
              /\ Len(p) = Min(n, Len(Head(_rx_buf)) - _rx_buf_offset)
              /\ Len(p) <= Min(n, getSize)
              /\ p = SubSeq(ReadBytesValue(n), 1, Len(p))
              /\ p = SubSeq(Head(_rx_buf), _rx_buf_offset + 1, _rx_buf_offset + Len(p))

\* peekBytes(dst, 2) has returned the one byte left in the head segment, a
\* second segment waiting behind it
C35_Witness ==
    /\ op = "peekBytes"
    /\ ret = 1 /\ dst = <<2>>
    /\ Len(_rx_buf) = 2
    /\ _rx_buf_offset = 1
    /\ getSize = 2
    /\ ReadBytesValue(2) = <<2, 3>>

(* ------------------------------ C33 ----------------------------------- *)

\* C33: once the last unref() has destroyed the context, the pcb it used no
\* longer carries the context pointer (tcp_arg), so none of _s_recv, _s_acked,
\* _s_error, _s_poll and _s_connected can be called with it, whichever way the
\* context came to its end.
C33_NoCallbackAfterDelete ==
    ~live => /\ ~pcb_cb.arg
             /\ ~_pcb
             /\ ~_connect_pending /\ ~_send_waiting

\* destroyed after the error callback had nulled the handle: the poll binding
\* was left on the pcb, the context pointer was not
C33_Witness ==
    /\ ~live
    /\ op = "unref"
    /\ calls.tcp_close = 0 /\ calls.tcp_abort = 0
    /\ pcb_cb.poll /\ ~pcb_cb.arg
    /\ teardown[Len(teardown)].step = "delete"
    /\ ~teardown[1].pcb

(* ------------------------------ C36 ----------------------------------- *)

\* C36: when tcp_connect refuses the request, connect() returns 0 at once: no
\* time passes, _connect_pending and _op_start_time keep their values, and the
\* pcb keeps its callbacks and its state (no tcp_close, no tcp_abort).
C36_ConnectRefused ==
    [][(pc = "idle" /\ op' = "connect")
         => /\ ret' = 0
            /\ pc' = "idle"
            /\ now' = now /\ nDelays' = nDelays
            /\ _connect_pending' = _connect_pending /\ ~_connect_pending'
            /\ _op_start_time' = _op_start_time
            /\ _pcb' = _pcb
            /\ pcb_cb' = pcb_cb
            /\ pcb_state' = pcb_state
            /\ calls' = calls]_vars

\* a refused connect() on an open handle: it is still there, fully bound
C36_Witness ==
    /\ op = "connect" /\ ret = 0 /\ pc = "idle"
    /\ _pcb /\ pcb_cb = AllCallbacks
    /\ ~_connect_pending
    /\ calls.tcp_abort = 0 /\ calls.tcp_close = 0

(* ------------------------------ C37 ----------------------------------- *)

\* what the claim promises of a query or option call on a null handle
SafeOnNull(q) ==
    CASE q \in {"getNoDelay", "isKeepAliveEnabled"} -> ret' = FALSE
      [] q = "state"                               -> ret' = "CLOSED"
      [] q = "wait_until_acked"                    -> ret' = TRUE
      [] q \in {"setNoDelay", "keepAlive"}         -> ret' = ret
      [] OTHER                                     -> ret' = 0

\* C37: with a null handle every query and option call returns normally, with
\* 0 / false / CLOSED / true or without a result, and leaves the pcb alone:
\* availableForWrite, getNoDelay, setNoDelay, the address and port getters,
\* state, wait_until_acked, keepAlive and the keep-alive getters.
C37_QueriesSafeOnNull ==
    [][(~_pcb /\ pc = "idle"
           /\ op' \in NullTested \cup NullUntested
                      \cup {"setNoDelay", "wait_until_acked", "keepAlive"})
         => /\ pc' = "idle"
            /\ SafeOnNull(op')
            /\ UNCHANGED <<_pcb, stkVars, kaVars>>]_vars

(* ------------------------------ C38 ----------------------------------- *)

\* C38: whatever the clock reads when a wait begins, also shortly before it
\* wraps, the wait lasts as the elapsed time says. While connect or write is
\* in esp_delay less than _timeout_ms has elapsed, and esp_delay gives up on a
\* pending connect only once _timeout_ms has elapsed; wait_until_acked goes on
\* only while at most the flush wait has elapsed since last_sent, and its first
\* test comes with no time elapsed; the write loop, with data left and the
\* connection up, goes on exactly if at most _timeout_ms has elapsed since
\* _op_start_time (or since now, after progress).
C38_WaitsByElapsedTime ==
    /\ [](/\ pc \in {"connect_wait", "write_wait"}
               => (0 <= now - start_ms /\ now - start_ms < _timeout_ms)
          /\ (pc = "connect_tail" /\ _connect_pending) => now - start_ms >= _timeout_ms
          /\ pc = "wua"
               => (0 <= now - last_sent
                   /\ now - last_sent <= WIFICLIENT_MAX_FLUSH_WAIT_MS)
          /\ (pc = "wua" /\ prevsndbuf = -1) => now = last_sent)
    /\ [][(pc = "wfs_check" /\ _written # _datalen /\ state # "CLOSED")
            => LET e == IF has_written THEN 0 ELSE now - _op_start_time IN
               (pc' \in {"write_wait", "ws_entry"}) <=> (0 <= e /\ e <= _timeout_ms)]_vars

\* connect gave up after the whole timeout, having begun one millisecond
\* before the clock wrapped
C38_Witness ==
    /\ pc = "connect_tail" /\ _connect_pending
    /\ start_ms = -1
    /\ now = DefaultTimeout - 1

(* ------------------------------ C39 ----------------------------------- *)

\* C39: connect(ip, port, rootCABuff, cli_cert, cli_key) leaves as root CA the
\* X509List of rootCABuff when that is non-null and none otherwise, and as
\* client chain and private key the X509List of cli_cert and the PrivateKey of
\* cli_key when both are non-null and none otherwise, whatever was stored.
C39_ConnectInstallsCerts ==
    [][op' = "connect_certs" /\ pc = "idle" =>
        LET rootCABuff == args'[1]
            cli_cert == args'[2]
            cli_key == args'[3]
            both == cli_cert # NullPem /\ cli_key # NullPem
        IN /\ _esp32_ta' = IF rootCABuff # NullPem THEN X509List(rootCABuff) ELSE nullptr
           /\ _esp32_chain' = IF both THEN X509List(cli_cert) ELSE nullptr
           /\ _esp32_sk' = IF both THEN PrivateKey(cli_key) ELSE nullptr]_vars

=============================================================================
